---- MODULE Spec2Model ----
(***************************************************************************)
(* Model of the web design evaluation service (chatbotTest1).              *)
(*                                                                         *)
(* Numbers.  Every score and total is an integer count of 1/100000, so     *)
(* that 80.125 is 8012500 and weights are integer hundredths (0.25 is 25). *)
(* The scores a model reply may carry are multiples of 1/8: those are      *)
(* exactly representable binary floating-point values, their products with *)
(* 0.25 and the sums of four such products are exact, and Python's round() *)
(* of an exactly representable value is round-half-to-even of that value.  *)
(* Within this domain the integer arithmetic below is the arithmetic of    *)
(* the program.                                                            *)
(***************************************************************************)
EXTENDS Integers, Sequences, FiniteSets, TLC

VARIABLES
    openai_client,   \* DesignEvaluator.openai_client is set (TRUE) or None (FALSE)
    pc,              \* position of the evaluate_design call
    response,        \* outcome of chat.completions.create of the call in progress
    model_called,    \* chat.completions.create was invoked during the current call
    result,          \* the dict the last call returned
    path,            \* which return statement produced result
    basic_pc,        \* outcome of the last _evaluate_basic call
    basic_in,        \* arguments of the last _evaluate_basic call
    basic_out,       \* the dict the last _evaluate_basic call returned
    grade_in,        \* argument of the last direct _get_grade call
    grade_out,       \* its return value
    rec_in,          \* arguments of the last direct _generate_recommendations call
    rec_out,         \* its return value
    lowercases_scheme, \* str(HttpUrl) of the installed pydantic lower-cases the scheme
    initialized,     \* initialize_services has run
    services,        \* which of the four service globals of main.py are not None
    api_pc,          \* position of the request being handled
    request,         \* the request being handled
    screenshot_url,  \* evaluate_website: screenshot_url (the backend upload)
    evaluation_data, \* evaluate_website: evaluation_data
    calls,           \* collaborator calls made for the current request, in order
    background,      \* the background task added for the current request
    http_response,   \* the response to the current request
    health,          \* the last answer of GET /health
    sub_call,        \* the sub-score function called directly, if any
    sub_in,          \* its arguments
    sub_out,         \* its outcome
    self_driver,     \* ScreenshotCapture.driver: None, or the number of a driver
    local_driver,    \* the local variable driver of the running capture
    drivers,         \* the drivers created so far, each with its quit() calls
    shot_pc,         \* position in capture_screenshot / capture_full_page
    shot_call,       \* the running call: method and url
    shot_out,        \* how the call ends: bytes returned, or the exception raised
    cloud_pc,        \* position in CloudStorage.upload_image ("none": no object yet)
    has_service,     \* hasattr(self, 'service'): Google Drive was initialised
    json_error_is_request_exception,  \* the installed requests raises its own
                     \* JSONDecodeError, a RequestException (2.27 and later)
    cloud_reply,     \* the reply of the script endpoint
    cloud_trace,     \* what the running upload has done so far
    cloud_out        \* how upload_image ends: the URL returned, or the exception

evalVars == <<openai_client, pc, response, model_called, result, path,
              basic_pc, basic_in, basic_out, grade_in, grade_out, rec_in, rec_out>>

apiVars == <<lowercases_scheme, initialized, services, api_pc, request,
             screenshot_url, evaluation_data, calls, background, http_response,
             health>>

subVars == <<sub_call, sub_in, sub_out>>

shotVars == <<self_driver, local_driver, drivers, shot_pc, shot_call, shot_out>>

cloudVars == <<cloud_pc, has_service, json_error_is_request_exception,
               cloud_reply, cloud_trace, cloud_out>>

vars == <<evalVars, apiVars, subVars, shotVars, cloudVars>>

----------------------------------------------------------------------------
(* Numbers *)

Unit == 10^5

\* n (a whole number) as a count of 1/100000
Whole(n) == n * Unit

\* x * w for a weight w given in hundredths
Times(x, w) == (x * w) \div 100

\* round(x, 1): round-half-to-even to one decimal
Round1(x) ==
    LET step == Unit \div 10
        q == x \div step
        r == x % step
    IN  IF 2 * r < step THEN q * step
        ELSE IF 2 * r > step THEN (q + 1) * step
        ELSE IF q % 2 = 0 THEN q * step ELSE (q + 1) * step

----------------------------------------------------------------------------
(* Scoring weights and grades *)

Categories == {"typography", "color", "layout", "usability"}

\* the weights of config/scoring_weights.py, in hundredths
CONFIG_SCORING_WEIGHTS ==
    [typography |-> 25, color |-> 25, layout |-> 30, usability |-> 20]

\* the grade thresholds of config/scoring_weights.py
SCORE_THRESHOLDS == [excellent |-> 85, good |-> 70, fair |-> 50, poor |-> 0]

\* the layout weight raised to 0.30 without lowering another
ScoringWeightsLayoutRaised ==
    [typography |-> 25, color |-> 25, layout |-> 30, usability |-> 25]

SCORING_WEIGHTS ==
    [typography |-> 25, color |-> 25, layout |-> 25, usability |-> 25]

\* _get_grade with the thresholds exclusive
GetGradeExclusive(score) ==
    IF score > Whole(85) THEN "Excelente"
    ELSE IF score > Whole(70) THEN "Bueno"
    ELSE IF score > Whole(50) THEN "Regular"
    ELSE "Necesita mejoras"

_get_grade(score) ==
    IF score >= Whole(85) THEN "Excelente"
    ELSE IF score >= Whole(70) THEN "Bueno"
    ELSE IF score >= Whole(50) THEN "Regular"
    ELSE "Necesita mejoras"

\* the fallback dict without its grade
FallbackWithoutGrade ==
    [total_score |-> Whole(50),
     categories |->
        [c \in Categories |-> [score |-> Whole(50), weight |-> SCORING_WEIGHTS[c]]],
     recommendations |->
        <<"No se pudo analizar completamente. Verifica la calidad de la imagen.">>]

_get_fallback_evaluation ==
    [total_score |-> Whole(50),
     categories |->
        [c \in Categories |-> [score |-> Whole(50), weight |-> SCORING_WEIGHTS[c]]],
     recommendations |->
        <<"No se pudo analizar completamente. Verifica la calidad de la imagen.">>,
     grade |-> "Regular"]

----------------------------------------------------------------------------
(* Text of a model reply.  A text is a sequence of characters; the JSON     *)
(* document inside a reply is carried as one atom, a character whose doc    *)
(* field holds the parsed value json.loads would build from it.  The       *)
(* backtick is written "bt".                                               *)

Ch(c) == [ch |-> c, doc |-> <<>>]

Doc(b) == [ch |-> "doc", doc |-> <<b>>]

Str(s) == [i \in 1..Len(s) |-> Ch(s[i])]

FENCE == Str(<<"bt", "bt", "bt">>)

FENCE_JSON == Str(<<"bt", "bt", "bt", "j", "s", "o", "n">>)

NL == Str(<<"\n">>)

IsSpace(c) == c.ch \in {"\n", " "}

\* str.startswith
StartsWith(s, p) == Len(s) >= Len(p) /\ SubSeq(s, 1, Len(p)) = p

\* str.endswith
EndsWith(s, p) == Len(s) >= Len(p) /\ SubSeq(s, Len(s) - Len(p) + 1, Len(s)) = p

RECURSIVE LStrip(_)
LStrip(s) == IF s # <<>> /\ IsSpace(Head(s)) THEN LStrip(Tail(s)) ELSE s

RECURSIVE RStrip(_)
RStrip(s) ==
    IF s # <<>> /\ IsSpace(s[Len(s)]) THEN RStrip(SubSeq(s, 1, Len(s) - 1)) ELSE s

\* str.strip
Strip(s) == RStrip(LStrip(s))

\* the cleaning of the reply text before json.loads
CleanMarkdown(content) ==
    LET t0 == Strip(content)
        t1 == IF StartsWith(t0, FENCE_JSON) THEN SubSeq(t0, 8, Len(t0)) ELSE t0
        t2 == IF EndsWith(t1, FENCE) THEN SubSeq(t1, 1, Len(t1) - 3) ELSE t1
    IN  Strip(t2)

\* json.loads accepts one document with optional whitespace around it
JsonLoadsOk(t) == LET u == Strip(t) IN Len(u) = 1 /\ u[1].ch = "doc"

JsonLoads(t) == Strip(t)[1].doc[1]

----------------------------------------------------------------------------
(* _evaluate_with_llm *)

Num(v) == [t |-> "num", v |-> v]

NonNumeric == [t |-> "str", v |-> 0]

\* the subscripts and the arithmetic of lines 160-192 raise nothing
LLMResultUsable(llm_result) ==
    /\ \A c \in Categories :
          /\ c \in DOMAIN llm_result
          /\ "score" \in DOMAIN llm_result[c]
          /\ llm_result[c]["score"].t = "num"
          /\ "reasoning" \in DOMAIN llm_result[c]
    /\ "recommendations" \in DOMAIN llm_result

WeightedTotal(llm_result) ==
    Times(llm_result["typography"]["score"].v, SCORING_WEIGHTS["typography"]) +
    Times(llm_result["color"]["score"].v, SCORING_WEIGHTS["color"]) +
    Times(llm_result["layout"]["score"].v, SCORING_WEIGHTS["layout"]) +
    Times(llm_result["usability"]["score"].v, SCORING_WEIGHTS["usability"])

LLMGrade(llm_result, total_score) == _get_grade(total_score)

\* the total the model supplied is trusted when there is one
LLMTotalFromModel(llm_result, total_score) ==
    IF "total_score" \in DOMAIN llm_result
    THEN llm_result["total_score"].v
    ELSE Round1(total_score)

LLMTotal(llm_result, total_score) == Round1(total_score)

LLMWeight(llm_result, c) == SCORING_WEIGHTS[c]

LLMResultDict(llm_result) ==
    LET total_score == WeightedTotal(llm_result)
    IN  [total_score |-> LLMTotal(llm_result, total_score),
         categories |->
            [c \in Categories |->
                [score |-> Round1(llm_result[c]["score"].v),
                 weight |-> LLMWeight(llm_result, c),
                 reasoning |-> llm_result[c]["reasoning"]]],
         recommendations |-> llm_result["recommendations"],
         grade |-> LLMGrade(llm_result, total_score)]

\* the reply reaches the return statement of line 167
LLMSucceeds(resp) ==
    /\ resp.kind = "text"
    /\ JsonLoadsOk(CleanMarkdown(resp.text))
    /\ LLMResultUsable(JsonLoads(CleanMarkdown(resp.text)))

\* a reply that parses but cannot be used fills in the categories it does give
EvaluateWithLLMPartial(resp) ==
    IF LLMSucceeds(resp)
    THEN LLMResultDict(JsonLoads(CleanMarkdown(resp.text)))
    ELSE IF resp.kind = "text" /\ JsonLoadsOk(CleanMarkdown(resp.text))
    THEN LET b == JsonLoads(CleanMarkdown(resp.text))
             given(c) == /\ c \in DOMAIN b
                         /\ "score" \in DOMAIN b[c]
                         /\ b[c]["score"].t = "num"
         IN  [_get_fallback_evaluation EXCEPT
                 !.categories =
                    [c \in Categories |->
                        IF given(c)
                        THEN [score |-> Round1(b[c]["score"].v),
                              weight |-> SCORING_WEIGHTS[c]]
                        ELSE @[c]]]
    ELSE _get_fallback_evaluation

_evaluate_with_llm(resp) ==
    IF LLMSucceeds(resp)
    THEN LLMResultDict(JsonLoads(CleanMarkdown(resp.text)))
    ELSE _get_fallback_evaluation

----------------------------------------------------------------------------
(* The heuristic evaluation: _evaluate_basic and its four sub-scores *)

\* dict.get('texts', [])
GetTexts(vision_results) ==
    IF "texts" \in DOMAIN vision_results THEN vision_results["texts"] ELSE <<>>

RECURSIVE SumSeq(_)
SumSeq(s) == IF s = <<>> THEN 0 ELSE Head(s) + SumSeq(Tail(s))

Abs(x) == IF x < 0 THEN -x ELSE x

\* both tests are made one after the other: a mean in [14, 18] earns both bonuses
FontSizeBonusBothBands(text_sizes) ==
    LET total == SumSeq(text_sizes)
        n == Len(text_sizes)
    IN  (IF 14 * n <= total /\ total <= 18 * n THEN 20 ELSE 0)
        + (IF 12 * n <= total /\ total <= 20 * n THEN 10 ELSE 0)

\* the font-size bonus of lines 263-266 for heights whose mean is
\* SumSeq(text_sizes) / Len(text_sizes)
FontSizeBonus(text_sizes) ==
    LET total == SumSeq(text_sizes)
        n == Len(text_sizes)
    IN  IF 14 * n <= total /\ total <= 18 * n THEN 20
        ELSE IF 12 * n <= total /\ total <= 20 * n THEN 10
        ELSE 0

Min(a, b) == IF a <= b THEN a ELSE b

_evaluate_typography(vision_results, pil_image) ==
    LET texts == GetTexts(vision_results)
        rest == Tail(texts)
        text_sizes == [i \in 1..Len(rest) |-> Abs(rest[i].y2 - rest[i].y0)]
        bonus == IF text_sizes # <<>> THEN FontSizeBonus(text_sizes) ELSE 0
    IN  IF texts = <<>> THEN Whole(50)
        ELSE Whole(Min(100, 50 + bonus + 15))

Max3(a, b, c) == IF a >= b /\ a >= c THEN a ELSE IF b >= c THEN b ELSE c

Min3(a, b, c) == IF a <= b /\ a <= c THEN a ELSE IF b <= c THEN b ELSE c

\* round() of the non-negative rational num / den to an integer, half to even
RoundRatio(num, den) ==
    LET q == num \div den
        r == num % den
    IN  IF 2 * r < den THEN q
        ELSE IF 2 * r > den THEN q + 1
        ELSE IF q % 2 = 0 THEN q ELSE q + 1

\* round(h * 360) for h, s, v = colorsys.rgb_to_hsv(r/255, g/255, b/255)
HueDegrees(r, g, b) ==
    LET maxc == Max3(r, g, b)
        minc == Min3(r, g, b)
        d == maxc - minc
        \* h before the division by 6, times d
        hd == IF r = maxc THEN g - b
              ELSE IF g = maxc THEN 2 * d + (b - r)
              ELSE 4 * d + (r - g)
    IN  IF d = 0 THEN 0 ELSE RoundRatio((60 * hd) % (360 * d), d)

\* insert x into the descending list s after the elements of equal count
RECURSIVE InsertByCount(_, _)
InsertByCount(x, s) ==
    IF s = <<>> THEN <<x>>
    ELSE IF Head(s).count >= x.count THEN <<Head(s)>> \o InsertByCount(x, Tail(s))
    ELSE <<x>> \o s

\* sorted(colors, key=lambda x: x[0], reverse=True): stable, descending
RECURSIVE SortByCountDesc(_)
SortByCountDesc(s) ==
    IF s = <<>> THEN <<>>
    ELSE InsertByCount(s[Len(s)], SortByCountDesc(SubSeq(s, 1, Len(s) - 1)))

\* the bonus counts the dominant colours, not their distinct hues
EvaluateColorCountsColors(pil_image) ==
    LET colors == pil_image.colors
        sorted == SortByCountDesc(colors)
        dominant_colors == SubSeq(sorted, 1, Min(10, Len(sorted)))
        with_hue == {j \in 1..Len(dominant_colors) : Len(dominant_colors[j].color) >= 3}
        harmony_score == Min(30, Cardinality(with_hue) * 3)
    IN  IF colors = <<>> THEN Whole(50)
        ELSE Whole(harmony_score + 25 + 20)

_evaluate_color(pil_image) ==
    LET colors == pil_image.colors
        sorted == SortByCountDesc(colors)
        dominant_colors == SubSeq(sorted, 1, Min(10, Len(sorted)))
        unique_hues ==
            {HueDegrees(dominant_colors[i].color[1], dominant_colors[i].color[2],
                        dominant_colors[i].color[3]) :
                i \in {j \in 1..Len(dominant_colors) :
                          Len(dominant_colors[j].color) >= 3}}
        harmony_score == Min(30, Cardinality(unique_hues) * 3)
    IN  IF colors = <<>> THEN Whole(50)
        ELSE Whole(harmony_score + 25 + 20)

\* 1.3 < width / height < 1.8: the limits of the band excluded
TypicalAspectExclusive(width, height) ==
    13 * height < 10 * width /\ 10 * width < 18 * height

\* 1.3 <= width / height <= 1.8
TypicalAspect(width, height) == 13 * height <= 10 * width /\ 10 * width <= 18 * height

\* the fixed whitespace and structure components are left out
EvaluateLayoutWithoutFixedParts(vision_results, pil_image) ==
    LET width == pil_image.size[1]
        height == pil_image.size[2]
        score == IF TypicalAspect(width, height) THEN 60 + 15 ELSE 60
    IN  Whole(Min(100, score))

_evaluate_layout(vision_results, pil_image) ==
    LET width == pil_image.size[1]
        height == pil_image.size[2]
        score == IF TypicalAspect(width, height) THEN 60 + 15 ELSE 60
    IN  Whole(Min(100, score + 15 + 10))

UpperCase ==
    <<"A", "B", "C", "D", "E", "F", "G", "H", "I", "J", "K", "L", "M",
      "N", "O", "P", "Q", "R", "S", "T", "U", "V", "W", "X", "Y", "Z">>

LowerCase ==
    <<"a", "b", "c", "d", "e", "f", "g", "h", "i", "j", "k", "l", "m",
      "n", "o", "p", "q", "r", "s", "t", "u", "v", "w", "x", "y", "z">>

LowerChar(c) ==
    IF \E i \in 1..26 : UpperCase[i] = c
    THEN LowerCase[CHOOSE i \in 1..26 : UpperCase[i] = c]
    ELSE c

\* str.lower
Lower(s) == [i \in 1..Len(s) |-> LowerChar(s[i])]

\* sub in s
Contains(s, sub) ==
    \E i \in 1..(Len(s) - Len(sub) + 1) : SubSeq(s, i, i + Len(sub) - 1) = sub

nav_indicators ==
    {<<"m", "e", "n", "u">>, <<"n", "a", "v">>, <<"h", "o", "m", "e">>,
     <<"c", "o", "n", "t", "a", "c", "t">>, <<"a", "b", "o", "u", "t">>}

\* the bonus is added for every matching text and the result is not clamped
EvaluateUsabilityBonusPerText(vision_results) ==
    LET texts == GetTexts(vision_results)
        matching ==
            {i \in 1..Len(texts) :
                \E indicator \in nav_indicators :
                    Contains(Lower(texts[i].description), indicator)}
    IN  Whole(55 + 20 * Cardinality(matching) + 15 + 10)

\* the description is not lower-cased before the words are looked for
EvaluateUsabilityCaseSensitive(vision_results) ==
    LET texts == GetTexts(vision_results)
        nav_score ==
            IF \E i \in 1..Len(texts) :
                  \E indicator \in nav_indicators :
                      Contains(texts[i].description, indicator)
            THEN 20 ELSE 0
    IN  Whole(Min(100, 55 + nav_score + 15 + 10))

_evaluate_usability(vision_results) ==
    LET texts == GetTexts(vision_results)
        nav_score ==
            IF \E i \in 1..Len(texts) :
                  \E indicator \in nav_indicators :
                      Contains(Lower(texts[i].description), indicator)
            THEN 20 ELSE 0
    IN  Whole(Min(100, 55 + nav_score + 15 + 10))

REC_TYPOGRAPHY ==
    "Mejora la legibilidad: usa tamaños de fuente entre 14-18px y asegura buen contraste."

REC_COLOR ==
    "Optimiza la paleta de colores: busca armonía y asegura accesibilidad (contraste mínimo 4.5:1)."

REC_LAYOUT ==
    "Revisa el layout: utiliza mejor los espacios en blanco y asegura estructura clara."

REC_USABILITY ==
    "Mejora la usabilidad: simplifica la navegación y agrega elementos interactivos claros."

REC_EXCELLENT == "¡Excelente trabajo! Tu sitio tiene un diseño muy sólido."

\* the congratulation is appended whatever the advisories are
GenerateRecommendationsAlwaysCongratulates(typography, color, layout, usability) ==
    (IF typography < Whole(70) THEN <<REC_TYPOGRAPHY>> ELSE <<>>)
    \o (IF color < Whole(70) THEN <<REC_COLOR>> ELSE <<>>)
    \o (IF layout < Whole(70) THEN <<REC_LAYOUT>> ELSE <<>>)
    \o (IF usability < Whole(70) THEN <<REC_USABILITY>> ELSE <<>>)
    \o <<REC_EXCELLENT>>

\* a sub-score of exactly 70 is advised on as well
GenerateRecommendationsInclusive(typography, color, layout, usability) ==
    LET recommendations ==
            (IF typography <= Whole(70) THEN <<REC_TYPOGRAPHY>> ELSE <<>>)
            \o (IF color <= Whole(70) THEN <<REC_COLOR>> ELSE <<>>)
            \o (IF layout <= Whole(70) THEN <<REC_LAYOUT>> ELSE <<>>)
            \o (IF usability <= Whole(70) THEN <<REC_USABILITY>> ELSE <<>>)
    IN  IF recommendations = <<>> THEN <<REC_EXCELLENT>> ELSE recommendations

_generate_recommendations(typography, color, layout, usability) ==
    LET recommendations ==
            (IF typography < Whole(70) THEN <<REC_TYPOGRAPHY>> ELSE <<>>)
            \o (IF color < Whole(70) THEN <<REC_COLOR>> ELSE <<>>)
            \o (IF layout < Whole(70) THEN <<REC_LAYOUT>> ELSE <<>>)
            \o (IF usability < Whole(70) THEN <<REC_USABILITY>> ELSE <<>>)
    IN  IF recommendations = <<>> THEN <<REC_EXCELLENT>> ELSE recommendations

BasicGrade(total_score) == _get_grade(total_score)

_evaluate_basic(vision_results, pil_image) ==
    LET typography_score == _evaluate_typography(vision_results, pil_image)
        color_score == _evaluate_color(pil_image)
        layout_score == _evaluate_layout(vision_results, pil_image)
        usability_score == _evaluate_usability(vision_results)
        sub == [typography |-> typography_score, color |-> color_score,
                layout |-> layout_score, usability |-> usability_score]
        total_score ==
            Times(typography_score, SCORING_WEIGHTS["typography"]) +
            Times(color_score, SCORING_WEIGHTS["color"]) +
            Times(layout_score, SCORING_WEIGHTS["layout"]) +
            Times(usability_score, SCORING_WEIGHTS["usability"])
    IN  [total_score |-> Round1(total_score),
         categories |->
            [c \in Categories |->
                [score |-> Round1(sub[c]), weight |-> SCORING_WEIGHTS[c]]],
         recommendations |->
            _generate_recommendations(typography_score, color_score,
                                      layout_score, usability_score),
         grade |-> BasicGrade(total_score)]

----------------------------------------------------------------------------
(* The replies the model may give *)

\* whole + eighths/8
Q(whole, eighths) == whole * Unit + eighths * (Unit \div 8)

ScoreValues == {Q(0, 0), Q(80, 0), Q(80, 1), Q(80, 2), Q(84, 7), Q(85, 0), Q(150, 0)}

DeformBaseValues == {Q(80, 0), Q(85, 0)}

RecommendationChoices == {<<>>, <<"rec1", "rec2", "rec3">>}

\* a reply of the requested shape; with extra, the model also supplies its
\* own total_score, grade and weights
WellFormed(sc, recs, extra) ==
    LET cat(c) ==
            IF extra
            THEN [score |-> Num(sc[c]), reasoning |-> "reasoning",
                  weight |-> Num(Unit)]
            ELSE [score |-> Num(sc[c]), reasoning |-> "reasoning"]
    IN  IF extra
        THEN [typography |-> cat("typography"), color |-> cat("color"),
              layout |-> cat("layout"), usability |-> cat("usability"),
              recommendations |-> recs,
              total_score |-> Num(Whole(100)), grade |-> "Excelente"]
        ELSE [typography |-> cat("typography"), color |-> cat("color"),
              layout |-> cat("layout"), usability |-> cat("usability"),
              recommendations |-> recs]

WithoutKey(obj, k) == [x \in DOMAIN obj \ {k} |-> obj[x]]

DeformBase ==
    {WellFormed(sc, <<"rec1", "rec2", "rec3">>, FALSE) :
        sc \in [Categories -> DeformBaseValues]}

\* replies that are JSON but not of the requested shape
DeformedBodies ==
    UNION {
        {WithoutKey(b, k) : k \in Categories \cup {"recommendations"}}
        \cup {[b EXCEPT ![c] = WithoutKey(b[c], "score")] : c \in Categories}
        \cup {[b EXCEPT ![c] = WithoutKey(b[c], "reasoning")] : c \in Categories}
        \cup {[b EXCEPT ![c]["score"] = NonNumeric] : c \in Categories}
        : b \in DeformBase}

Wrappers == {"bare", "json_fence", "plain_fence", "json_open", "close_only", "prose"}

\* a text that carries body b: bare, fenced with and without the json tag,
\* fenced on one side only, or preceded by prose
Wrap(w, b) ==
    CASE w = "bare" -> <<Doc(b)>>
      [] w = "json_fence" -> FENCE_JSON \o NL \o <<Doc(b)>> \o NL \o FENCE
      [] w = "plain_fence" -> FENCE \o NL \o <<Doc(b)>> \o NL \o FENCE
      [] w = "json_open" -> FENCE_JSON \o NL \o <<Doc(b)>>
      [] w = "close_only" -> <<Doc(b)>> \o NL \o FENCE
      [] w = "prose" -> Str(<<"x", " ">>) \o <<Doc(b)>>

\* replies that carry no JSON document at all
ProseTexts == {<<>>, Str(<<"x">>), FENCE_JSON \o NL \o FENCE}

NoText == <<>>

\* chat.completions.create raised
Raised == [kind |-> "raise", text |-> NoText]

\* message.content is None
NoContent == [kind |-> "none", text |-> NoText]

NoResponse == [kind |-> "nothing", text |-> NoText]

TextResponse(t) == [kind |-> "text", text |-> t]

----------------------------------------------------------------------------
(* evaluate_design *)

NoResult == <<>>

NoBasicIn == <<>>

NoRecIn == [c \in Categories |-> 0]

NoRecOut == [called |-> FALSE, value |-> <<>>]

NoSubIn == [vision_results |-> [texts |-> <<>>],
            pil_image |-> [size |-> <<1, 1>>, colors |-> <<>>]]

NoSubOut == [outcome |-> "none", score |-> 0]

\* the value None of a driver variable; drivers are numbered from 1
NoDriver == 0

NoShotCall == [method |-> "none", url |-> <<>>]

NoShotOut == [outcome |-> "none", message |-> <<>>]

\* a JSON value of the script's reply, or the absence of the key
Json(type, text) == [type |-> type, text |-> text]

Missing == Json("missing", "")

NoReply == [status_code |-> 0, body |-> "none", success |-> Missing,
            url |-> Missing, error |-> Missing]

NoCloudOut == [outcome |-> "none", value |-> "", message |-> <<>>]

\* Python's None, where a URL string may stand
None == "None"

\* the four service globals before initialize_services has run
NoServices ==
    [screenshot_capture |-> FALSE, cloud_storage |-> FALSE,
     design_evaluator |-> FALSE, sheets_logger |-> FALSE]

NoRequest == [posted |-> <<>>, url |-> <<>>, screenshot_url |-> None]

NoBackground ==
    [state |-> "none", url |-> <<>>, evaluation_data |-> NoResult,
     screenshot_url |-> None]

NoHttpResponse == [status_code |-> 0, detail |-> <<>>, body |-> NoResult]

NoHealth == [status_code |-> 0, status |-> "none", services |-> NoServices]

\* without a client the model is called all the same
EvaluateDesignNoClientCallsModel ==
    /\ pc = "idle"
    /\ ~openai_client
    /\ pc' = "returned"
    /\ model_called' = TRUE
    /\ response' = Raised
    /\ result' = _get_fallback_evaluation
    /\ path' = "no_client"
    /\ UNCHANGED apiVars
    /\ UNCHANGED subVars
    /\ UNCHANGED shotVars
    /\ UNCHANGED cloudVars
    /\ UNCHANGED <<rec_in, rec_out>>
    /\ UNCHANGED <<openai_client, basic_pc, basic_in, basic_out, grade_in, grade_out>>

\* line 65: no client, the neutral result without any model call
EvaluateDesignNoClient ==
    /\ pc = "idle"
    /\ ~openai_client
    /\ pc' = "returned"
    /\ model_called' = FALSE
    /\ response' = NoResponse
    /\ result' = _get_fallback_evaluation
    /\ path' = "no_client"
    /\ UNCHANGED apiVars
    /\ UNCHANGED subVars
    /\ UNCHANGED shotVars
    /\ UNCHANGED cloudVars
    /\ UNCHANGED <<rec_in, rec_out>>
    /\ UNCHANGED <<openai_client, basic_pc, basic_in, basic_out, grade_in, grade_out>>

\* lines 60-61 and 129: the request to the model is sent
CallModel ==
    /\ pc = "idle"
    /\ openai_client
    /\ pc' = "awaiting"
    /\ model_called' = TRUE
    /\ response' = NoResponse
    /\ result' = NoResult
    /\ path' = "none"
    /\ UNCHANGED apiVars
    /\ UNCHANGED subVars
    /\ UNCHANGED shotVars
    /\ UNCHANGED cloudVars
    /\ UNCHANGED <<rec_in, rec_out>>
    /\ UNCHANGED <<openai_client, basic_pc, basic_in, basic_out, grade_in, grade_out>>

\* lines 129-198: the call raises or answers, and _evaluate_with_llm returns.
\* _evaluate_with_llm catches every exception itself, so the handler of
\* evaluate_design (lines 67-69) has nothing left to catch.
ModelResponds(resp) ==
    /\ pc' = "returned"
    /\ response' = resp
    /\ result' = _evaluate_with_llm(resp)
    /\ path' = IF LLMSucceeds(resp) THEN "llm" ELSE "llm_except"
    /\ UNCHANGED apiVars
    /\ UNCHANGED subVars
    /\ UNCHANGED shotVars
    /\ UNCHANGED cloudVars
    /\ UNCHANGED <<rec_in, rec_out>>
    /\ UNCHANGED <<openai_client, model_called, basic_pc, basic_in, basic_out,
                   grade_in, grade_out>>

\* the client raises, or the message has no content
ModelFails ==
    /\ pc = "awaiting"
    /\ \E resp \in {Raised, NoContent} : ModelResponds(resp)

\* the reply is text without a JSON document
ModelRepliesProse ==
    /\ pc = "awaiting"
    /\ \E t \in ProseTexts : ModelResponds(TextResponse(t))

\* the reply carries a JSON document of the requested shape
ModelRepliesWellFormed ==
    /\ pc = "awaiting"
    /\ \E sc \in [Categories -> ScoreValues], recs \in RecommendationChoices,
          extra \in BOOLEAN, w \in Wrappers :
            ModelResponds(TextResponse(Wrap(w, WellFormed(sc, recs, extra))))

\* the reply carries a JSON document of another shape
ModelRepliesDeformed ==
    /\ pc = "awaiting"
    /\ \E b \in DeformedBodies, w \in Wrappers :
            ModelResponds(TextResponse(Wrap(w, b)))

\* the caller has the result; the evaluator is ready for the next call
NextCall ==
    /\ pc = "returned"
    /\ pc' = "idle"
    /\ model_called' = FALSE
    /\ response' = NoResponse
    /\ result' = NoResult
    /\ path' = "none"
    /\ UNCHANGED apiVars
    /\ UNCHANGED subVars
    /\ UNCHANGED shotVars
    /\ UNCHANGED cloudVars
    /\ UNCHANGED <<rec_in, rec_out>>
    /\ UNCHANGED <<openai_client, basic_pc, basic_in, basic_out, grade_in, grade_out>>

Init ==
    /\ openai_client \in BOOLEAN
    /\ pc = "idle"
    /\ response = NoResponse
    /\ model_called = FALSE
    /\ result = NoResult
    /\ path = "none"
    /\ basic_pc = "idle"
    /\ basic_in = NoBasicIn
    /\ basic_out = NoResult
    /\ grade_in = 0
    /\ grade_out = "none"
    /\ rec_in = NoRecIn
    /\ rec_out = NoRecOut
    /\ lowercases_scheme \in BOOLEAN
    /\ initialized = FALSE
    /\ services = NoServices
    /\ api_pc = "idle"
    /\ request = NoRequest
    /\ screenshot_url = None
    /\ evaluation_data = NoResult
    /\ calls = <<>>
    /\ background = NoBackground
    /\ http_response = NoHttpResponse
    /\ health = NoHealth
    /\ sub_call = "none"
    /\ sub_in = NoSubIn
    /\ sub_out = NoSubOut
    /\ self_driver = NoDriver
    /\ local_driver = NoDriver
    /\ drivers = <<>>
    /\ shot_pc = "idle"
    /\ shot_call = NoShotCall
    /\ shot_out = NoShotOut
    /\ cloud_pc = "none"
    /\ has_service = FALSE
    /\ json_error_is_request_exception = FALSE
    /\ cloud_reply = NoReply
    /\ cloud_trace = <<>>
    /\ cloud_out = NoCloudOut

Next ==
    \/ EvaluateDesignNoClient
    \/ CallModel
    \/ ModelFails
    \/ ModelRepliesProse
    \/ ModelRepliesWellFormed
    \/ ModelRepliesDeformed
    \/ NextCall

Spec == Init /\ [][Next]_vars

----------------------------------------------------------------------------
(* Direct calls of _evaluate_basic *)

MaxTexts == 3

TextHeights == {11, 12, 14, 18, 20, 21}

\* a text annotation: the y of vertices 0 and 2 of its bounding polygon, and
\* its description
TextAnnotations ==
    {[y0 |-> 100, y2 |-> 100 + h, description |-> <<"B", "l", "o", "g">>] :
        h \in TextHeights}
    \cup {[y0 |-> 116, y2 |-> 100, description |-> <<"M", "e", "n", "u">>]}

TextLists == UNION {[1..n -> TextAnnotations] : n \in 0..MaxTexts}

\* n colours of distinct hue (4 degrees apart), the most frequent first
Ramp(n) == [i \in 1..n |-> [count |-> 100 - i, color |-> <<255, 17 * i, 0>>]]

ColorLists ==
    {<<>>,
     <<[count |-> 100, color |-> <<255, 255, 255>>],
       [count |-> 50, color |-> <<0, 0, 0>>]>>,
     <<[count |-> 10, color |-> <<0, 0, 255>>],
       [count |-> 70, color |-> <<255, 0, 0, 255>>],
       [count |-> 20, color |-> <<0, 255, 0>>]>>,
     <<[count |-> 30, color |-> <<128>>]>>,
     Ramp(11)}

Sizes == {<<1920, 1080>>, <<13, 10>>, <<18, 10>>, <<10, 10>>, <<19, 10>>}

Images == {[size |-> sz, colors |-> cl] : sz \in Sizes, cl \in ColorLists}

\* an image of height 0: width / height raises ZeroDivisionError
EmptyImages == {[size |-> <<16, 0>>, colors |-> <<>>]}

BasicCall(vision_results, pil_image) ==
    /\ basic_in' = [vision_results |-> vision_results, pil_image |-> pil_image]
    /\ IF pil_image.size[2] = 0
       THEN basic_pc' = "raised" /\ basic_out' = NoResult
       ELSE basic_pc' = "returned"
            /\ basic_out' = _evaluate_basic(vision_results, pil_image)
    /\ UNCHANGED apiVars
    /\ UNCHANGED subVars
    /\ UNCHANGED shotVars
    /\ UNCHANGED cloudVars
    /\ UNCHANGED <<rec_in, rec_out>>
    /\ UNCHANGED <<openai_client, pc, response, model_called, result, path,
                   grade_in, grade_out>>

\* _evaluate_basic with the texts the vision analysis found
EvaluateBasic ==
    /\ basic_pc = "idle"
    /\ \E ts \in TextLists, img \in Images \cup EmptyImages :
          BasicCall([texts |-> ts], img)

\* _evaluate_basic with the empty dict _analyze_with_vision returns without a client
EvaluateBasicNoVision ==
    /\ basic_pc = "idle"
    /\ \E img \in Images : BasicCall([x \in {} |-> 0], img)

BasicDone ==
    /\ basic_pc # "idle"
    /\ basic_pc' = "idle"
    /\ basic_in' = NoBasicIn
    /\ basic_out' = NoResult
    /\ UNCHANGED apiVars
    /\ UNCHANGED subVars
    /\ UNCHANGED shotVars
    /\ UNCHANGED cloudVars
    /\ UNCHANGED <<rec_in, rec_out>>
    /\ UNCHANGED <<openai_client, pc, response, model_called, result, path,
                   grade_in, grade_out>>

NextBasic == EvaluateBasic \/ EvaluateBasicNoVision \/ BasicDone

SpecBasic == Init /\ [][NextBasic]_vars

----------------------------------------------------------------------------
(* Direct calls of _get_grade *)

MaxGradeOver == 5

\* every multiple of 1/40 from -MaxGradeOver to 100 + MaxGradeOver
GradeInputs ==
    {k * (Unit \div 40) : k \in (-(MaxGradeOver * 40))..((100 + MaxGradeOver) * 40)}

GetGrade ==
    /\ grade_out = "none"
    /\ \E score \in GradeInputs :
          /\ grade_in' = score
          /\ grade_out' = _get_grade(score)
    /\ UNCHANGED apiVars
    /\ UNCHANGED subVars
    /\ UNCHANGED shotVars
    /\ UNCHANGED cloudVars
    /\ UNCHANGED <<rec_in, rec_out>>
    /\ UNCHANGED <<openai_client, pc, response, model_called, result, path,
                   basic_pc, basic_in, basic_out>>

GradeDone ==
    /\ grade_out # "none"
    /\ grade_in' = 0
    /\ grade_out' = "none"
    /\ UNCHANGED apiVars
    /\ UNCHANGED subVars
    /\ UNCHANGED shotVars
    /\ UNCHANGED cloudVars
    /\ UNCHANGED <<rec_in, rec_out>>
    /\ UNCHANGED <<openai_client, pc, response, model_called, result, path,
                   basic_pc, basic_in, basic_out>>

NextGrade == GetGrade \/ GradeDone

SpecGrade == Init /\ [][NextGrade]_vars

----------------------------------------------------------------------------
(* Direct calls of _generate_recommendations *)

\* sub-scores on both sides of 70, 70 itself and the nearest value below it
RecScores == {Whole(40), Whole(70) - 1, Whole(70), Whole(90)}

GenerateRecommendations ==
    /\ ~rec_out.called
    /\ \E typography \in RecScores, color \in RecScores,
          layout \in RecScores, usability \in RecScores :
          /\ rec_in' = [typography |-> typography, color |-> color,
                        layout |-> layout, usability |-> usability]
          /\ rec_out' = [called |-> TRUE,
                         value |-> _generate_recommendations(
                                       typography, color, layout, usability)]
    /\ UNCHANGED apiVars
    /\ UNCHANGED subVars
    /\ UNCHANGED shotVars
    /\ UNCHANGED cloudVars
    /\ UNCHANGED <<openai_client, pc, response, model_called, result, path,
                   basic_pc, basic_in, basic_out, grade_in, grade_out>>

RecommendationsDone ==
    /\ rec_out.called
    /\ rec_in' = NoRecIn
    /\ rec_out' = NoRecOut
    /\ UNCHANGED apiVars
    /\ UNCHANGED subVars
    /\ UNCHANGED shotVars
    /\ UNCHANGED cloudVars
    /\ UNCHANGED <<openai_client, pc, response, model_called, result, path,
                   basic_pc, basic_in, basic_out, grade_in, grade_out>>

NextRecs == GenerateRecommendations \/ RecommendationsDone

SpecRecs == Init /\ [][NextRecs]_vars

----------------------------------------------------------------------------
(* Direct calls of the four sub-score functions *)

\* heights of text regions: the band limits 12, 14, 18, 20, their neighbours,
\* 16 and 25
SubHeights == {11, 12, 14, 16, 18, 20, 21, 25}

\* text regions of those heights, and one whose vertices are given bottom-up
HeightAnnotations ==
    {[y0 |-> 100, y2 |-> 100 + h, description |-> <<"B", "l", "o", "g">>] :
        h \in SubHeights}
    \cup {[y0 |-> 125, y2 |-> 100, description |-> <<"B", "l", "o", "g">>]}

HeightTextLists == UNION {[1..n -> HeightAnnotations] : n \in 0..MaxTexts}

\* descriptions that contain menu, nav, home, contact or about in some case
NavDescriptions ==
    {<<"M", "e", "n", "u">>,
     <<"M", "E", "N", "U">>,
     <<"S", "i", "t", "e", "n", "A", "V">>,
     <<"h", "o", "m", "e", " ", "a", "b", "o", "u", "t">>}

\* descriptions that contain none of them
PlainDescriptions ==
    {<<"B", "l", "o", "g">>,
     <<"M", "e", "n">>,
     <<"n", "a", " ", "v">>,
     <<>>}

DescribedAnnotations ==
    {[y0 |-> 100, y2 |-> 116, description |-> d] :
        d \in NavDescriptions \cup PlainDescriptions}

DescribedTextLists == UNION {[1..n -> DescribedAnnotations] : n \in 0..MaxTexts}

\* colour lists as getcolors returns them: none, more than ten hues, hues
\* that repeat, colours that are not RGB tuples
SubColorLists ==
    ColorLists
    \cup {Ramp(n) : n \in 1..12}
    \cup {<<[count |-> 5, color |-> <<255, 17, 0>>],
             [count |-> 9, color |-> <<15, 1, 0>>],
             [count |-> 7, color |-> <<30, 2, 0>>]>>}

\* sizes: the limits 1.3 and 1.8 of the band, both sides of each, a width of
\* 0 and a height of 0
SubSizes ==
    Sizes \cup {<<12, 10>>, <<129, 100>>, <<181, 100>>, <<0, 16>>, <<16, 0>>}

SubCall(name, vision_results, pil_image, outcome, score) ==
    /\ sub_call = "none"
    /\ sub_call' = name
    /\ sub_in' = [vision_results |-> vision_results, pil_image |-> pil_image]
    /\ sub_out' = [outcome |-> outcome, score |-> score]
    /\ UNCHANGED apiVars
    /\ UNCHANGED evalVars
    /\ UNCHANGED shotVars
    /\ UNCHANGED cloudVars

EvaluateTypography ==
    /\ sub_call = "none"
    /\ \E ts \in HeightTextLists :
          SubCall("typography", [texts |-> ts], NoSubIn.pil_image, "returned",
                  _evaluate_typography([texts |-> ts], NoSubIn.pil_image))

EvaluateColor ==
    /\ sub_call = "none"
    /\ \E cl \in SubColorLists :
          LET pil_image == [size |-> <<1920, 1080>>, colors |-> cl]
          IN  SubCall("color", NoSubIn.vision_results, pil_image, "returned",
                      _evaluate_color(pil_image))

\* width / height raises ZeroDivisionError when height is 0
EvaluateLayout ==
    /\ sub_call = "none"
    /\ \E sz \in SubSizes :
          LET pil_image == [size |-> sz, colors |-> <<>>]
          IN  IF sz[2] = 0
              THEN SubCall("layout", NoSubIn.vision_results, pil_image, "raised", 0)
              ELSE SubCall("layout", NoSubIn.vision_results, pil_image, "returned",
                           _evaluate_layout(NoSubIn.vision_results, pil_image))

EvaluateUsability ==
    /\ sub_call = "none"
    /\ \E ts \in DescribedTextLists :
          SubCall("usability", [texts |-> ts], NoSubIn.pil_image, "returned",
                  _evaluate_usability([texts |-> ts]))

\* vision_results is the empty dict: no 'texts' key
EvaluateWithoutTexts ==
    /\ sub_call = "none"
    /\ \/ SubCall("typography", [x \in {} |-> 0], NoSubIn.pil_image, "returned",
                   _evaluate_typography([x \in {} |-> 0], NoSubIn.pil_image))
       \/ SubCall("usability", [x \in {} |-> 0], NoSubIn.pil_image, "returned",
                   _evaluate_usability([x \in {} |-> 0]))

SubDone ==
    /\ sub_call # "none"
    /\ sub_call' = "none"
    /\ sub_in' = NoSubIn
    /\ sub_out' = NoSubOut
    /\ UNCHANGED apiVars
    /\ UNCHANGED evalVars
    /\ UNCHANGED shotVars
    /\ UNCHANGED cloudVars

NextSub ==
    \/ EvaluateTypography
    \/ EvaluateColor
    \/ EvaluateLayout
    \/ EvaluateUsability
    \/ EvaluateWithoutTexts
    \/ SubDone

SpecSub == Init /\ [][NextSub]_vars

----------------------------------------------------------------------------
(* The HTTP layer: initialize_services, POST /evaluate, GET /health.  A URL  *)
(* is a sequence of characters.  The handler of /evaluate is followed call   *)
(* by call, so that the order of the collaborator calls can be observed;     *)
(* the background task runs after the response has been produced.            *)

HTTP_PREFIX == <<"h", "t", "t", "p", ":", "/", "/">>

HTTPS_PREFIX == <<"h", "t", "t", "p", "s", ":", "/", "/">>

HOST == <<"a", ".", "c", "o">>

\* URLs a client may post
RequestUrls ==
    {HTTPS_PREFIX \o HOST,
     HTTP_PREFIX \o HOST,
     <<"H", "T", "T", "P", ":", "/", "/">> \o HOST,
     <<"f", "t", "p", ":", "/", "/">> \o HOST,
     <<"i", "n", "v", "a", "l", "i", "d", "-", "u", "r", "l">>}

\* screenshot_url of the request: absent, empty, or a URL uploaded by the frontend
ProvidedScreenshotUrls == {None, "", "https://frontend/shot.png"}

\* the URL upload_screenshot returns
BACKEND_SCREENSHOT_URL == "https://backend/shot.png"

\* pydantic's HttpUrl: scheme http or https in any letter case, then a host
HttpUrlValid(url) ==
    \/ StartsWith(Lower(url), HTTP_PREFIX) /\ Len(url) > Len(HTTP_PREFIX)
    \/ StartsWith(Lower(url), HTTPS_PREFIX) /\ Len(url) > Len(HTTPS_PREFIX)

\* str(request.url): the text as posted, or (newer pydantic) lower-cased with
\* the empty path written "/"
UrlStr(url) == IF lowercases_scheme THEN Lower(url) \o <<"/">> ELSE url

\* a or b, for values that are None or strings
Or(a, b) == IF a = None \/ a = "" THEN b ELSE a

DETAIL_BAD_URL == "URL debe comenzar con http:// o https://"

DETAIL_INTERNAL == "Error interno del servidor: "

\* str() of the HTTPException of line 122
BAD_URL_AS_TEXT == "400: URL debe comenzar con http:// o https://"

\* entries of calls: a collaborator call that returned, and one that raised
Returned(name) == [call |-> name, raised |-> FALSE]

RaisedIn(name) == [call |-> name, raised |-> TRUE]

\* the handler's except clause: any exception raised inside the try block
InternalError(cause) ==
    [status_code |-> 500, detail |-> <<DETAIL_INTERNAL, cause>>, body |-> NoResult]

\* line 142
DefaultEvaluationData ==
    [total_score |-> Whole(50), grade |-> "Regular", categories |-> <<>>,
     recommendations |-> <<"Evaluación básica completada">>]

ServiceNames == {"screenshot_capture", "cloud_storage", "design_evaluator", "sheets_logger"}

\* evaluate_design, given what the model call does
evaluate_design(resp) ==
    IF openai_client THEN _evaluate_with_llm(resp) ELSE _get_fallback_evaluation

\* what the model call may do during a request
ApiScoreChoices ==
    {[c \in Categories |-> Q(85, 0)],
     [c \in Categories |-> IF c = "color" THEN Q(0, 0) ELSE Q(80, 1)]}

ApiResponses ==
    {Raised}
    \cup {TextResponse(Wrap("json_fence", WellFormed(sc, recs, FALSE))) :
              sc \in ApiScoreChoices, recs \in RecommendationChoices}

\* startup: ScreenshotCapture() and DesignEvaluator() do not raise; CloudStorage()
\* may raise and is then None; the sheets logger exists when the credentials
\* file does and its constructor does not raise
InitializeServices ==
    /\ api_pc = "idle"
    /\ ~initialized
    /\ initialized' = TRUE
    /\ \E cloud \in BOOLEAN, sheets \in BOOLEAN :
          services' = [screenshot_capture |-> TRUE, cloud_storage |-> cloud,
                       design_evaluator |-> TRUE, sheets_logger |-> sheets]
    /\ UNCHANGED <<lowercases_scheme, api_pc, request, screenshot_url,
                   evaluation_data, calls, background, http_response, health>>
    /\ UNCHANGED evalVars
    /\ UNCHANGED subVars
    /\ UNCHANGED shotVars
    /\ UNCHANGED cloudVars

\* the tests replace service globals by mocks (@patch) while the others keep
\* their value, None if startup has not run: any of the four may be set
PatchServices ==
    /\ api_pc = "idle"
    /\ \E patched \in SUBSET ServiceNames :
          services' = [s \in ServiceNames |-> services[s] \/ s \in patched]
    /\ UNCHANGED <<lowercases_scheme, initialized, api_pc, request, screenshot_url,
                   evaluation_data, calls, background, http_response, health>>
    /\ UNCHANGED evalVars
    /\ UNCHANGED subVars
    /\ UNCHANGED shotVars
    /\ UNCHANGED cloudVars

\* the request body does not validate: the handler is not entered
EvaluateRejected ==
    /\ api_pc = "idle"
    /\ \E url \in RequestUrls, provided \in ProvidedScreenshotUrls :
          /\ ~HttpUrlValid(url)
          /\ request' = [posted |-> url, url |-> url, screenshot_url |-> provided]
    /\ http_response' = [status_code |-> 422, detail |-> <<"url">>, body |-> NoResult]
    /\ api_pc' = "responded"
    /\ UNCHANGED <<lowercases_scheme, initialized, services, screenshot_url,
                   evaluation_data, calls, background, health>>
    /\ UNCHANGED evalVars
    /\ UNCHANGED subVars
    /\ UNCHANGED shotVars
    /\ UNCHANGED cloudVars

\* lines 116-122 and 189-191: the handler is entered; the HTTPException of
\* line 122 is raised inside the try block and caught by its except clause
EvaluateReceived ==
    /\ api_pc = "idle"
    /\ \E url \in RequestUrls, provided \in ProvidedScreenshotUrls :
          /\ HttpUrlValid(url)
          /\ request' = [posted |-> url, url |-> UrlStr(url),
                         screenshot_url |-> provided]
          /\ IF StartsWith(UrlStr(url), HTTP_PREFIX) \/ StartsWith(UrlStr(url), HTTPS_PREFIX)
             THEN /\ api_pc' = "capture"
                  /\ http_response' = NoHttpResponse
             ELSE /\ api_pc' = "responded"
                  /\ http_response' = InternalError(BAD_URL_AS_TEXT)
    /\ UNCHANGED <<lowercases_scheme, initialized, services, screenshot_url,
                   evaluation_data, calls, background, health>>
    /\ UNCHANGED evalVars
    /\ UNCHANGED subVars
    /\ UNCHANGED shotVars
    /\ UNCHANGED cloudVars

\* line 126: capture_screenshot returns the image
CaptureSucceeds ==
    /\ api_pc = "capture"
    /\ services.screenshot_capture
    /\ calls' = Append(calls, Returned("capture_screenshot"))
    /\ api_pc' = "upload"
    /\ UNCHANGED <<lowercases_scheme, initialized, services, request, screenshot_url,
                   evaluation_data, background, http_response, health>>
    /\ UNCHANGED evalVars
    /\ UNCHANGED subVars
    /\ UNCHANGED shotVars
    /\ UNCHANGED cloudVars

\* the failure of capture_screenshot is swallowed and the handler goes on
CaptureFailsSwallowed ==
    /\ api_pc = "capture"
    /\ services.screenshot_capture
    /\ calls' = Append(calls, RaisedIn("capture_screenshot"))
    /\ api_pc' = "upload"
    /\ UNCHANGED <<lowercases_scheme, initialized, services, request, screenshot_url,
                   evaluation_data, background, http_response, health>>
    /\ UNCHANGED evalVars
    /\ UNCHANGED subVars
    /\ UNCHANGED shotVars
    /\ UNCHANGED cloudVars

\* line 126: capture_screenshot raises
CaptureFails ==
    /\ api_pc = "capture"
    /\ services.screenshot_capture
    /\ calls' = Append(calls, RaisedIn("capture_screenshot"))
    /\ api_pc' = "responded"
    /\ http_response' = InternalError("Error al capturar screenshot")
    /\ UNCHANGED <<lowercases_scheme, initialized, services, request, screenshot_url,
                   evaluation_data, background, health>>
    /\ UNCHANGED evalVars
    /\ UNCHANGED subVars
    /\ UNCHANGED shotVars
    /\ UNCHANGED cloudVars

\* line 126 with screenshot_capture None: the attribute access raises
CaptureUnavailable ==
    /\ api_pc = "capture"
    /\ ~services.screenshot_capture
    /\ api_pc' = "responded"
    /\ http_response' = InternalError("'NoneType' object has no attribute 'capture_screenshot'")
    /\ UNCHANGED <<lowercases_scheme, initialized, services, request, screenshot_url,
                   evaluation_data, calls, background, health>>
    /\ UNCHANGED evalVars
    /\ UNCHANGED subVars
    /\ UNCHANGED shotVars
    /\ UNCHANGED cloudVars

\* lines 129-135: upload_screenshot returns the public URL
UploadSucceeds ==
    /\ api_pc = "upload"
    /\ services.cloud_storage
    /\ calls' = Append(calls, Returned("upload_screenshot"))
    /\ screenshot_url' = BACKEND_SCREENSHOT_URL
    /\ api_pc' = "evaluate"
    /\ UNCHANGED <<lowercases_scheme, initialized, services, request,
                   evaluation_data, background, http_response, health>>
    /\ UNCHANGED evalVars
    /\ UNCHANGED subVars
    /\ UNCHANGED shotVars
    /\ UNCHANGED cloudVars

\* the exception of upload_screenshot reaches the handler's except clause
UploadFailsUnhandled ==
    /\ api_pc = "upload"
    /\ services.cloud_storage
    /\ calls' = Append(calls, RaisedIn("upload_screenshot"))
    /\ screenshot_url' = None
    /\ api_pc' = "responded"
    /\ http_response' = InternalError("upload_screenshot")
    /\ UNCHANGED <<lowercases_scheme, initialized, services, request,
                   evaluation_data, background, health>>
    /\ UNCHANGED evalVars
    /\ UNCHANGED subVars
    /\ UNCHANGED shotVars
    /\ UNCHANGED cloudVars

\* lines 129-138: upload_screenshot raises; screenshot_url stays None
UploadFails ==
    /\ api_pc = "upload"
    /\ services.cloud_storage
    /\ calls' = Append(calls, RaisedIn("upload_screenshot"))
    /\ screenshot_url' = None
    /\ api_pc' = "evaluate"
    /\ UNCHANGED <<lowercases_scheme, initialized, services, request,
                   evaluation_data, background, http_response, health>>
    /\ UNCHANGED evalVars
    /\ UNCHANGED subVars
    /\ UNCHANGED shotVars
    /\ UNCHANGED cloudVars

\* lines 129-130 with cloud_storage None
UploadSkipped ==
    /\ api_pc = "upload"
    /\ ~services.cloud_storage
    /\ screenshot_url' = None
    /\ api_pc' = "evaluate"
    /\ UNCHANGED <<lowercases_scheme, initialized, services, request,
                   evaluation_data, calls, background, http_response, health>>
    /\ UNCHANGED evalVars
    /\ UNCHANGED subVars
    /\ UNCHANGED shotVars
    /\ UNCHANGED cloudVars

\* lines 142-150: evaluate_design returns
EvaluateDesign ==
    /\ api_pc = "evaluate"
    /\ services.design_evaluator
    /\ \E resp \in ApiResponses : evaluation_data' = evaluate_design(resp)
    /\ calls' = Append(calls, Returned("evaluate_design"))
    /\ api_pc' = "respond"
    /\ UNCHANGED <<lowercases_scheme, initialized, services, request, screenshot_url,
                   background, http_response, health>>
    /\ UNCHANGED evalVars
    /\ UNCHANGED subVars
    /\ UNCHANGED shotVars
    /\ UNCHANGED cloudVars

\* the exception of evaluate_design reaches the handler's except clause
EvaluateDesignRaisesUnhandled ==
    /\ api_pc = "evaluate"
    /\ services.design_evaluator
    /\ evaluation_data' = DefaultEvaluationData
    /\ calls' = Append(calls, RaisedIn("evaluate_design"))
    /\ api_pc' = "responded"
    /\ http_response' = InternalError("evaluate_design")
    /\ UNCHANGED <<lowercases_scheme, initialized, services, request, screenshot_url,
                   background, health>>
    /\ UNCHANGED evalVars
    /\ UNCHANGED subVars
    /\ UNCHANGED shotVars
    /\ UNCHANGED cloudVars

\* lines 142-154: the call of a (patched) evaluator raises; the default stays
EvaluateDesignRaises ==
    /\ api_pc = "evaluate"
    /\ services.design_evaluator
    /\ evaluation_data' = DefaultEvaluationData
    /\ calls' = Append(calls, RaisedIn("evaluate_design"))
    /\ api_pc' = "respond"
    /\ UNCHANGED <<lowercases_scheme, initialized, services, request, screenshot_url,
                   background, http_response, health>>
    /\ UNCHANGED evalVars
    /\ UNCHANGED subVars
    /\ UNCHANGED shotVars
    /\ UNCHANGED cloudVars

\* lines 142-156 with design_evaluator None: the default stays
EvaluateSkipped ==
    /\ api_pc = "evaluate"
    /\ ~services.design_evaluator
    /\ evaluation_data' = DefaultEvaluationData
    /\ api_pc' = "respond"
    /\ UNCHANGED <<lowercases_scheme, initialized, services, request, screenshot_url,
                   calls, background, http_response, health>>
    /\ UNCHANGED evalVars
    /\ UNCHANGED subVars
    /\ UNCHANGED shotVars
    /\ UNCHANGED cloudVars

\* lines 158-187: the logging task is added and the response is built
Respond ==
    /\ api_pc = "respond"
    /\ calls' = Append(calls, Returned("add_task"))
    /\ background' = [state |-> "scheduled", url |-> request.url,
                      evaluation_data |-> evaluation_data,
                      screenshot_url |-> Or(request.screenshot_url, screenshot_url)]
    /\ http_response' =
           [status_code |-> 200, detail |-> <<>>,
            body |-> [url |-> request.url,
                      total_score |-> evaluation_data.total_score,
                      grade |-> evaluation_data.grade,
                      categories |-> evaluation_data.categories,
                      recommendations |-> evaluation_data.recommendations,
                      screenshot_url |-> screenshot_url,
                      report_url |-> None]]
    /\ api_pc' = "responded"
    /\ UNCHANGED <<lowercases_scheme, initialized, services, request, screenshot_url,
                   evaluation_data, health>>
    /\ UNCHANGED evalVars
    /\ UNCHANGED subVars
    /\ UNCHANGED shotVars
    /\ UNCHANGED cloudVars

\* log_evaluation_background: log_evaluation returns
LogSucceeds ==
    /\ api_pc = "responded"
    /\ background.state = "scheduled"
    /\ calls' = Append(calls, Returned("log_evaluation"))
    /\ background' = [background EXCEPT !.state = "logged"]
    /\ UNCHANGED <<lowercases_scheme, initialized, services, api_pc, request,
                   screenshot_url, evaluation_data, http_response, health>>
    /\ UNCHANGED evalVars
    /\ UNCHANGED subVars
    /\ UNCHANGED shotVars
    /\ UNCHANGED cloudVars

\* the failure of log_evaluation reaches the handler's except clause
LogFailsUnswallowed ==
    /\ api_pc = "responded"
    /\ background.state = "scheduled"
    /\ calls' = Append(calls, RaisedIn("log_evaluation"))
    /\ \E failure \in {"request_error", "success_false"} :
          background' = [background EXCEPT !.state = failure]
    /\ http_response' = InternalError("Error de conexión con Google Apps Script")
    /\ UNCHANGED <<lowercases_scheme, initialized, services, api_pc, request,
                   screenshot_url, evaluation_data, health>>
    /\ UNCHANGED evalVars
    /\ UNCHANGED subVars
    /\ UNCHANGED shotVars
    /\ UNCHANGED cloudVars

\* log_evaluation_background: log_evaluation raises (the request failed, or
\* the script answered success=false); line 201 swallows the exception
LogFails ==
    /\ api_pc = "responded"
    /\ background.state = "scheduled"
    /\ calls' = Append(calls, RaisedIn("log_evaluation"))
    /\ \E failure \in {"request_error", "success_false"} :
          background' = [background EXCEPT !.state = failure]
    /\ UNCHANGED <<lowercases_scheme, initialized, services, api_pc, request,
                   screenshot_url, evaluation_data, http_response, health>>
    /\ UNCHANGED evalVars
    /\ UNCHANGED subVars
    /\ UNCHANGED shotVars
    /\ UNCHANGED cloudVars

\* healthy as soon as one service is available
HealthCheckAny ==
    [status_code |-> 200,
     status |-> IF \E s \in DOMAIN services : services[s]
                THEN "healthy" ELSE "degraded",
     services |-> services]

\* lines 276-289
health_check ==
    [status_code |-> 200,
     status |-> IF \A s \in DOMAIN services : services[s]
                THEN "healthy" ELSE "degraded",
     services |-> services]

HealthCheck ==
    /\ api_pc = "idle"
    /\ health' = health_check
    /\ api_pc' = "health_responded"
    /\ UNCHANGED <<lowercases_scheme, initialized, services, request, screenshot_url,
                   evaluation_data, calls, background, http_response>>
    /\ UNCHANGED evalVars
    /\ UNCHANGED subVars
    /\ UNCHANGED shotVars
    /\ UNCHANGED cloudVars

\* the exchange is over; the server waits for the next request
RequestDone ==
    /\ api_pc \in {"responded", "health_responded"}
    /\ background.state # "scheduled"
    /\ api_pc' = "idle"
    /\ request' = NoRequest
    /\ screenshot_url' = None
    /\ evaluation_data' = NoResult
    /\ calls' = <<>>
    /\ background' = NoBackground
    /\ http_response' = NoHttpResponse
    /\ health' = NoHealth
    /\ UNCHANGED <<lowercases_scheme, initialized, services>>
    /\ UNCHANGED evalVars
    /\ UNCHANGED subVars
    /\ UNCHANGED shotVars
    /\ UNCHANGED cloudVars

NextApi ==
    \/ InitializeServices
    \/ PatchServices
    \/ EvaluateRejected
    \/ EvaluateReceived
    \/ CaptureSucceeds
    \/ CaptureFails
    \/ CaptureUnavailable
    \/ UploadSucceeds
    \/ UploadFails
    \/ UploadSkipped
    \/ EvaluateDesign
    \/ EvaluateDesignRaises
    \/ EvaluateSkipped
    \/ Respond
    \/ LogSucceeds
    \/ LogFails
    \/ HealthCheck
    \/ RequestDone

SpecApi == Init /\ [][NextApi]_vars

-----------------------------------------------------------------------------
\* ScreenshotCapture (screenshot_capture.py): capture_screenshot and
\* capture_full_page, step by step

\* the most drivers created
MaxDrivers == 3

ERROR_SCREENSHOT ==
    <<"E", "r", "r", "o", "r", " ", "a", "l", " ", "c", "a", "p", "t", "u",
      "r", "a", "r", " ", "s", "c", "r", "e", "e", "n", "s", "h", "o", "t",
      " ", "d", "e", " ">>

ERROR_FULL_PAGE ==
    <<"E", "r", "r", "o", "r", " ", "a", "l", " ", "c", "a", "p", "t", "u",
      "r", "a", "r", " ", "p", "á", "g", "i", "n", "a", " ", "c", "o", "m",
      "p", "l", "e", "t", "a", " ", "d", "e", " ">>

ERROR_NO_DRIVER ==
    <<"N", "o", " ", "s", "e", " ", "p", "u", "d", "o", " ", "c", "o", "n",
      "f", "i", "g", "u", "r", "a", "r", " ", "C", "h", "r", "o", "m", "e",
      "D", "r", "i", "v", "e", "r", ":", " ">>

COLON == <<":", " ">>

CaptureMethods == {"capture_screenshot", "capture_full_page"}

\* str(e) of the exceptions a step may raise
FailureTexts == {<<>>, <<"t", "i", "m", "e", "o", "u", "t">>}

\* lines 85-86 and 141-142: the exception the call raises for the cause e
CaptureError(method, url, e) ==
    (IF method = "capture_screenshot" THEN ERROR_SCREENSHOT ELSE ERROR_FULL_PAGE)
        \o url \o COLON \o e

\* a driver just created, with the source of its chromedriver binary
NewDriver(binary) == [binary |-> binary, quit_calls |-> 0, quit_raised |-> FALSE]

\* a call begins: driver = None
CaptureCall ==
    /\ shot_pc = "idle"
    /\ Len(drivers) < MaxDrivers
    /\ \E method \in CaptureMethods, url \in {HTTPS_PREFIX \o HOST, HTTP_PREFIX \o HOST} :
          shot_call' = [method |-> method, url |-> url]
    /\ local_driver' = NoDriver
    /\ shot_out' = NoShotOut
    /\ shot_pc' = "setup"
    /\ UNCHANGED <<self_driver, drivers>>
    /\ UNCHANGED evalVars
    /\ UNCHANGED apiVars
    /\ UNCHANGED subVars
    /\ UNCHANGED cloudVars

\* _setup_driver, lines 32-35, and driver = self.driver
SetupDriver ==
    /\ shot_pc = "setup"
    /\ drivers' = Append(drivers, NewDriver("chromedriver_py"))
    /\ self_driver' = Len(drivers) + 1
    /\ local_driver' = Len(drivers) + 1
    /\ shot_pc' = "get"
    /\ UNCHANGED <<shot_call, shot_out>>
    /\ UNCHANGED evalVars
    /\ UNCHANGED apiVars
    /\ UNCHANGED subVars
    /\ UNCHANGED cloudVars

\* lines 36-37: webdriver.Chrome raises with the bundled binary
SetupPrimaryFails ==
    /\ shot_pc = "setup"
    /\ shot_pc' = "fallback"
    /\ UNCHANGED <<self_driver, local_driver, drivers, shot_call, shot_out>>
    /\ UNCHANGED evalVars
    /\ UNCHANGED apiVars
    /\ UNCHANGED subVars
    /\ UNCHANGED cloudVars

\* lines 39-41: the driver of webdriver-manager, and driver = self.driver
SetupFallback ==
    /\ shot_pc = "fallback"
    /\ drivers' = Append(drivers, NewDriver("webdriver_manager"))
    /\ self_driver' = Len(drivers) + 1
    /\ local_driver' = Len(drivers) + 1
    /\ shot_pc' = "get"
    /\ UNCHANGED <<shot_call, shot_out>>
    /\ UNCHANGED evalVars
    /\ UNCHANGED apiVars
    /\ UNCHANGED subVars
    /\ UNCHANGED cloudVars

\* the except clause of the call: the exception to raise, then the finally
StepFails(at, e) ==
    /\ shot_pc = at
    /\ shot_out' = [outcome |-> "raised",
                    message |-> CaptureError(shot_call.method, shot_call.url, e)]
    /\ shot_pc' = "finally"
    /\ UNCHANGED <<self_driver, local_driver, drivers, shot_call>>
    /\ UNCHANGED evalVars
    /\ UNCHANGED apiVars
    /\ UNCHANGED subVars
    /\ UNCHANGED cloudVars

\* lines 42-44: no driver can be set up
SetupFails ==
    \E e2 \in FailureTexts : StepFails("fallback", ERROR_NO_DRIVER \o e2)

StepSucceeds(at, to) ==
    /\ shot_pc = at
    /\ shot_pc' = to
    /\ UNCHANGED <<self_driver, local_driver, drivers, shot_call, shot_out>>
    /\ UNCHANGED evalVars
    /\ UNCHANGED apiVars
    /\ UNCHANGED subVars
    /\ UNCHANGED cloudVars

\* driver.get(url) and the wait
Navigate ==
    StepSucceeds("get", IF shot_call.method = "capture_full_page"
                        THEN "resize" ELSE "png")

NavigateFails ==
    \E e \in FailureTexts : StepFails("get", e)

\* lines 116-121: the page's size is read and the window set to it
ResizeWindow ==
    StepSucceeds("resize", "png")

ResizeWindowFails ==
    \E e \in FailureTexts : StepFails("resize", e)

\* driver.get_screenshot_as_png()
GetScreenshot ==
    StepSucceeds("png", "write")

GetScreenshotFails ==
    \E e \in FailureTexts : StepFails("png", e)

\* lines 80-83 and 136-139: the file is written, the bytes are returned
WriteFile ==
    /\ shot_pc = "write"
    /\ shot_out' = [outcome |-> "returned", message |-> <<>>]
    /\ shot_pc' = "finally"
    /\ UNCHANGED <<self_driver, local_driver, drivers, shot_call>>
    /\ UNCHANGED evalVars
    /\ UNCHANGED apiVars
    /\ UNCHANGED subVars
    /\ UNCHANGED cloudVars

WriteFileFails ==
    \E e \in FailureTexts : StepFails("write", e)

\* finally: driver.quit() returns; self.driver = None
Quit ==
    /\ shot_pc = "finally"
    /\ local_driver # NoDriver
    /\ drivers' = [drivers EXCEPT ![local_driver].quit_calls = @ + 1]
    /\ self_driver' = NoDriver
    /\ shot_pc' = "ended"
    /\ UNCHANGED <<local_driver, shot_call, shot_out>>
    /\ UNCHANGED evalVars
    /\ UNCHANGED apiVars
    /\ UNCHANGED subVars
    /\ UNCHANGED cloudVars

\* the exception of driver.quit() leaves the finally clause: it replaces the
\* outcome of the call, and self.driver = None is not reached
QuitRaisesUnhandled ==
    /\ shot_pc = "finally"
    /\ local_driver # NoDriver
    /\ drivers' = [drivers EXCEPT ![local_driver].quit_calls = @ + 1,
                                  ![local_driver].quit_raised = TRUE]
    /\ \E e \in FailureTexts : shot_out' = [outcome |-> "raised", message |-> e]
    /\ shot_pc' = "ended"
    /\ UNCHANGED <<self_driver, local_driver, shot_call>>
    /\ UNCHANGED evalVars
    /\ UNCHANGED apiVars
    /\ UNCHANGED subVars
    /\ UNCHANGED cloudVars

\* finally: driver.quit() raises, lines 92-93 swallow it; self.driver = None
QuitRaises ==
    /\ shot_pc = "finally"
    /\ local_driver # NoDriver
    /\ drivers' = [drivers EXCEPT ![local_driver].quit_calls = @ + 1,
                                  ![local_driver].quit_raised = TRUE]
    /\ self_driver' = NoDriver
    /\ shot_pc' = "ended"
    /\ UNCHANGED <<local_driver, shot_call, shot_out>>
    /\ UNCHANGED evalVars
    /\ UNCHANGED apiVars
    /\ UNCHANGED subVars
    /\ UNCHANGED cloudVars

\* finally with driver None: nothing to release
NothingToQuit ==
    /\ shot_pc = "finally"
    /\ local_driver = NoDriver
    /\ shot_pc' = "ended"
    /\ UNCHANGED <<self_driver, local_driver, drivers, shot_call, shot_out>>
    /\ UNCHANGED evalVars
    /\ UNCHANGED apiVars
    /\ UNCHANGED subVars
    /\ UNCHANGED cloudVars

\* the caller has the bytes or the exception; the next call may begin
CaptureEnded ==
    /\ shot_pc = "ended"
    /\ shot_pc' = "idle"
    /\ UNCHANGED <<self_driver, local_driver, drivers, shot_call, shot_out>>
    /\ UNCHANGED evalVars
    /\ UNCHANGED apiVars
    /\ UNCHANGED subVars
    /\ UNCHANGED cloudVars

NextShot ==
    \/ CaptureCall
    \/ SetupDriver
    \/ SetupPrimaryFails
    \/ SetupFallback
    \/ SetupFails
    \/ Navigate
    \/ NavigateFails
    \/ ResizeWindow
    \/ ResizeWindowFails
    \/ GetScreenshot
    \/ GetScreenshotFails
    \/ WriteFile
    \/ WriteFileFails
    \/ Quit
    \/ QuitRaises
    \/ NothingToQuit
    \/ CaptureEnded

SpecShot == Init /\ [][NextShot]_vars

-----------------------------------------------------------------------------
\* CloudStorage (cloud_storage.py): upload_image, step by step

JsonNull == Json("null", "")

SCRIPT_URL == "https://drive.google.com/uc?id=script1"

\* bool() of a JSON value
Truthy(v) ==
    CASE v.type = "bool" -> v.text = "true"
      [] v.type = "string" -> v.text # ""
      [] OTHER -> FALSE

\* the replies of the endpoint: an HTTP status and a body that is no JSON, a
\* JSON array, or an object with any of the keys success, url and error
ScriptReplies ==
    {[status_code |-> st, body |-> b, success |-> Missing, url |-> Missing,
      error |-> Missing] : st \in {200, 500}, b \in {"html", "array"}}
    \cup {[status_code |-> st, body |-> "object", success |-> su, url |-> u,
           error |-> e] :
              st \in {200, 500},
              su \in {Json("bool", "true"), Json("bool", "false"), JsonNull, Missing},
              u \in {Json("string", SCRIPT_URL), Json("string", ""), JsonNull, Missing},
              e \in {Json("string", "quota"), Missing}}

ERROR_UPLOAD == "Error al subir imagen: "

ERROR_NO_URL == "Apps Script no devolvió URL válida"

ERROR_UNKNOWN == "Error desconocido en Apps Script"

\* result.get(key, default)
Get(v, default) == IF v.type = "missing" THEN default ELSE v

Returns(value) == [outcome |-> "returned", value |-> value, message |-> <<>>]

Raises(message) == [outcome |-> "raised", value |-> "", message |-> message]

\* lines 82-92: what _upload_to_apps_script does with the decoded object
HandleScriptResult(reply) ==
    IF Truthy(Get(reply.success, JsonNull))
    THEN IF ~Truthy(Get(reply.url, JsonNull))
         THEN Raises(<<ERROR_NO_URL>>)
         ELSE Returns(reply.url.text)
    ELSE Raises(<<ERROR_UPLOAD, Get(reply.error, Json("string", ERROR_UNKNOWN)).text>>)

\* line 131
DriveUrl(file_id) ==
    IF file_id = None THEN "https://drive.google.com/uc?id=None"
    ELSE "https://drive.google.com/uc?id=file1"

\* CloudStorage(): the script URL is set; Drive is initialised when the
\* credentials file exists
CloudStorageInit ==
    /\ cloud_pc = "none"
    /\ cloud_pc' = "idle"
    /\ has_service' \in BOOLEAN
    /\ json_error_is_request_exception' \in BOOLEAN
    /\ UNCHANGED <<cloud_reply, cloud_trace, cloud_out>>
    /\ UNCHANGED evalVars
    /\ UNCHANGED apiVars
    /\ UNCHANGED subVars
    /\ UNCHANGED shotVars

\* upload_image is called
UploadImage ==
    /\ cloud_pc = "idle"
    /\ cloud_pc' = "post"
    /\ cloud_reply' = NoReply
    /\ cloud_trace' = <<>>
    /\ cloud_out' = NoCloudOut
    /\ UNCHANGED <<has_service, json_error_is_request_exception>>
    /\ UNCHANGED evalVars
    /\ UNCHANGED apiVars
    /\ UNCHANGED subVars
    /\ UNCHANGED shotVars

\* lines 94-100: a RequestException was raised at the step named
RequestFailed(step) ==
    /\ cloud_trace' = Append(cloud_trace, step)
    /\ IF has_service
       THEN /\ cloud_pc' = "drive"
            /\ UNCHANGED cloud_out
       ELSE /\ cloud_pc' = "ended"
            /\ cloud_out' = Raises(<<ERROR_UPLOAD, step>>)
    /\ UNCHANGED <<has_service, json_error_is_request_exception>>
    /\ UNCHANGED evalVars
    /\ UNCHANGED apiVars
    /\ UNCHANGED subVars
    /\ UNCHANGED shotVars

\* requests.post raises: no connection, or no answer within 30 seconds
PostFails ==
    /\ cloud_pc = "post"
    /\ RequestFailed("post_raised")
    /\ UNCHANGED cloud_reply

\* requests.post returns a reply
PostReturns ==
    /\ cloud_pc = "post"
    /\ cloud_reply' \in ScriptReplies
    /\ cloud_trace' = Append(cloud_trace, "post_returned")
    /\ cloud_pc' = "status"
    /\ UNCHANGED <<has_service, json_error_is_request_exception, cloud_out>>
    /\ UNCHANGED evalVars
    /\ UNCHANGED apiVars
    /\ UNCHANGED subVars
    /\ UNCHANGED shotVars

\* response.raise_for_status() on a status below 400
StatusOk ==
    /\ cloud_pc = "status"
    /\ cloud_reply.status_code < 400
    /\ cloud_pc' = "json"
    /\ UNCHANGED <<has_service, json_error_is_request_exception, cloud_reply,
                   cloud_trace, cloud_out>>
    /\ UNCHANGED evalVars
    /\ UNCHANGED apiVars
    /\ UNCHANGED subVars
    /\ UNCHANGED shotVars

\* response.raise_for_status() raises HTTPError, a RequestException
StatusError ==
    /\ cloud_pc = "status"
    /\ cloud_reply.status_code >= 400
    /\ RequestFailed("status_error")
    /\ UNCHANGED cloud_reply

\* response.json() raises requests' JSONDecodeError, a RequestException
JsonFailsAsRequestException ==
    /\ cloud_pc = "json"
    /\ cloud_reply.body = "html"
    /\ json_error_is_request_exception
    /\ RequestFailed("json_error")
    /\ UNCHANGED cloud_reply

\* response.json() raises a ValueError that no except clause catches
JsonFailsAsValueError ==
    /\ cloud_pc = "json"
    /\ cloud_reply.body = "html"
    /\ ~json_error_is_request_exception
    /\ cloud_trace' = Append(cloud_trace, "json_error")
    /\ cloud_out' = Raises(<<"JSONDecodeError">>)
    /\ cloud_pc' = "ended"
    /\ UNCHANGED <<has_service, json_error_is_request_exception, cloud_reply>>
    /\ UNCHANGED evalVars
    /\ UNCHANGED apiVars
    /\ UNCHANGED subVars
    /\ UNCHANGED shotVars

\* the body is JSON but no object: result.get raises AttributeError
ResultIsNoObject ==
    /\ cloud_pc = "json"
    /\ cloud_reply.body = "array"
    /\ cloud_trace' = Append(cloud_trace, "decoded")
    /\ cloud_out' = Raises(<<"AttributeError">>)
    /\ cloud_pc' = "ended"
    /\ UNCHANGED <<has_service, json_error_is_request_exception, cloud_reply>>
    /\ UNCHANGED evalVars
    /\ UNCHANGED apiVars
    /\ UNCHANGED subVars
    /\ UNCHANGED shotVars

\* the exception of a refused reply is handled like a failed request
HandleResultWithFallback ==
    /\ cloud_pc = "json"
    /\ cloud_reply.body = "object"
    /\ IF HandleScriptResult(cloud_reply).outcome = "raised"
       THEN RequestFailed("decoded")
       ELSE /\ cloud_trace' = Append(cloud_trace, "decoded")
            /\ cloud_out' = HandleScriptResult(cloud_reply)
            /\ cloud_pc' = "ended"
            /\ UNCHANGED <<has_service, json_error_is_request_exception>>
    /\ UNCHANGED evalVars
    /\ UNCHANGED apiVars
    /\ UNCHANGED subVars
    /\ UNCHANGED shotVars
    /\ UNCHANGED cloud_reply

\* lines 79-92: the decoded object gives the URL or an exception
HandleResult ==
    /\ cloud_pc = "json"
    /\ cloud_reply.body = "object"
    /\ cloud_trace' = Append(cloud_trace, "decoded")
    /\ cloud_out' = HandleScriptResult(cloud_reply)
    /\ cloud_pc' = "ended"
    /\ UNCHANGED <<has_service, json_error_is_request_exception, cloud_reply>>
    /\ UNCHANGED evalVars
    /\ UNCHANGED apiVars
    /\ UNCHANGED subVars
    /\ UNCHANGED shotVars

\* _upload_to_google_drive: files().create().execute() returns the file
DriveUpload ==
    /\ cloud_pc = "drive"
    /\ cloud_trace' = Append(cloud_trace, "drive_upload")
    /\ \E file_id \in {"file1", None} : cloud_out' = Returns(DriveUrl(file_id))
    /\ cloud_pc' = "public"
    /\ UNCHANGED <<has_service, json_error_is_request_exception, cloud_reply>>
    /\ UNCHANGED evalVars
    /\ UNCHANGED apiVars
    /\ UNCHANGED subVars
    /\ UNCHANGED shotVars

\* files().create().execute() raises HttpError, lines 136-138
DriveUploadFails ==
    /\ cloud_pc = "drive"
    /\ cloud_trace' = Append(cloud_trace, "drive_upload")
    /\ cloud_out' = Raises(<<ERROR_UPLOAD, "HttpError">>)
    /\ cloud_pc' = "ended"
    /\ UNCHANGED <<has_service, json_error_is_request_exception, cloud_reply>>
    /\ UNCHANGED evalVars
    /\ UNCHANGED apiVars
    /\ UNCHANGED subVars
    /\ UNCHANGED shotVars

\* _make_file_public returns; the URL is returned
MakeFilePublic ==
    /\ cloud_pc = "public"
    /\ cloud_trace' = Append(cloud_trace, "make_public")
    /\ cloud_pc' = "ended"
    /\ UNCHANGED <<has_service, json_error_is_request_exception, cloud_reply,
                   cloud_out>>
    /\ UNCHANGED evalVars
    /\ UNCHANGED apiVars
    /\ UNCHANGED subVars
    /\ UNCHANGED shotVars

\* _make_file_public re-raises HttpError, lines 136-138 wrap it
MakeFilePublicFails ==
    /\ cloud_pc = "public"
    /\ cloud_trace' = Append(cloud_trace, "make_public")
    /\ cloud_out' = Raises(<<ERROR_UPLOAD, "HttpError">>)
    /\ cloud_pc' = "ended"
    /\ UNCHANGED <<has_service, json_error_is_request_exception, cloud_reply>>
    /\ UNCHANGED evalVars
    /\ UNCHANGED apiVars
    /\ UNCHANGED subVars
    /\ UNCHANGED shotVars

\* the caller has the URL or the exception; the next upload may begin
UploadEnded ==
    /\ cloud_pc = "ended"
    /\ cloud_pc' = "idle"
    /\ UNCHANGED <<has_service, json_error_is_request_exception, cloud_reply,
                   cloud_trace, cloud_out>>
    /\ UNCHANGED evalVars
    /\ UNCHANGED apiVars
    /\ UNCHANGED subVars
    /\ UNCHANGED shotVars

NextCloud ==
    \/ CloudStorageInit
    \/ UploadImage
    \/ PostFails
    \/ PostReturns
    \/ StatusOk
    \/ StatusError
    \/ JsonFailsAsRequestException
    \/ JsonFailsAsValueError
    \/ ResultIsNoObject
    \/ HandleResult
    \/ DriveUpload
    \/ DriveUploadFails
    \/ MakeFilePublic
    \/ MakeFilePublicFails
    \/ UploadEnded

SpecCloud == Init /\ [][NextCloud]_vars

----------------------------------------------------------------------------
(* Properties *)

ResultKeys == {"total_score", "grade", "categories", "recommendations"}

\* the JSON document the returned result was built from (LLM success path)
ParsedReply == JsonLoads(CleanMarkdown(response.text))

\* sum over the categories of stored score times stored weight
StoredWeightedSum(res) ==
    Times(res.categories["typography"].score, res.categories["typography"].weight) +
    Times(res.categories["color"].score, res.categories["color"].weight) +
    Times(res.categories["layout"].score, res.categories["layout"].weight) +
    Times(res.categories["usability"].score, res.categories["usability"].weight)

\* t is x rounded to one decimal, whichever way a tie is broken
IsRoundingOf(t, x) ==
    /\ t % (Unit \div 10) = 0
    /\ 20 * Abs(t - x) <= Unit

\* C1: every result returned by evaluate_design has total_score equal to the
\* sum of stored category score times stored category weight, rounded to one
\* decimal.
C1_TotalIsStoredWeightedSum ==
    pc = "returned" =>
        IsRoundingOf(result.total_score, StoredWeightedSum(result))

\* C1 (heuristic part): the same equation for every result _evaluate_basic returns.
C1_BasicTotalIsStoredWeightedSum ==
    basic_pc = "returned" =>
        basic_out.total_score = Round1(StoredWeightedSum(basic_out))

\* C2: whatever the model call does, evaluate_design returns a dict with the
\* keys total_score, grade, categories and recommendations.
C2_AlwaysReturnsResult ==
    /\ pc \in {"idle", "awaiting", "returned"}
    /\ pc = "returned" =>
          /\ path \in {"no_client", "llm", "llm_except"}
          /\ DOMAIN result = ResultKeys

\* C2 witness: a reply with a non-numeric score was answered with a result.
C2_Witness ==
    /\ pc = "returned"
    /\ response.kind = "text"
    /\ JsonLoadsOk(CleanMarkdown(response.text))
    /\ \E c \in Categories :
          /\ c \in DOMAIN ParsedReply
          /\ "score" \in DOMAIN ParsedReply[c]
          /\ ParsedReply[c]["score"] = NonNumeric
    /\ DOMAIN result = ResultKeys

\* C3: every returned result holds exactly the four categories and a
\* non-empty recommendations list.
C3_FourCategoriesAndRecommendations ==
    pc = "returned" =>
        /\ DOMAIN result.categories = Categories
        /\ Len(result.recommendations) > 0

\* C4: _get_grade maps score >= 85 to Excelente, 70 <= score < 85 to Bueno,
\* 50 <= score < 70 to Regular and score < 50 to Necesita mejoras.
C4_GradeBands ==
    grade_out # "none" =>
        /\ grade_in >= Whole(85) => grade_out = "Excelente"
        /\ (Whole(70) <= grade_in /\ grade_in < Whole(85)) => grade_out = "Bueno"
        /\ (Whole(50) <= grade_in /\ grade_in < Whole(70)) => grade_out = "Regular"
        /\ grade_in < Whole(50) => grade_out = "Necesita mejoras"

\* C4 witness: the boundary value 70 was graded into the higher band.
C4_Witness == grade_in = Whole(70) /\ grade_out = "Bueno"

\* C5: the grade of a returned result is the band of its total_score field.
C5_GradeIsBandOfTotal ==
    pc = "returned" => result.grade = _get_grade(result.total_score)

\* C5 (heuristic part): the same for every result _evaluate_basic returns.
C5_BasicGradeIsBandOfTotal ==
    basic_pc = "returned" => basic_out.grade = _get_grade(basic_out.total_score)

InRange(x) == 0 <= x /\ x <= Whole(100)

\* C6: no returned result has a category score or a total_score outside
\* [0, 100]; a reply with such a score is answered with the fallback result.
C6_ScoresInRange ==
    pc = "returned" =>
        /\ InRange(result.total_score)
        /\ \A c \in Categories : InRange(result.categories[c].score)

\* the parsed reply lacks a category, a score, a reasoning or the recommendations
LacksKey(b) ==
    \/ "recommendations" \notin DOMAIN b
    \/ \E c \in Categories :
          \/ c \notin DOMAIN b
          \/ "score" \notin DOMAIN b[c]
          \/ "reasoning" \notin DOMAIN b[c]

NeutralResult ==
    [total_score |-> Whole(50),
     grade |-> "Regular",
     categories |-> [c \in Categories |-> [score |-> Whole(50), weight |-> 25]],
     recommendations |->
        <<"No se pudo analizar completamente. Verifica la calidad de la imagen.">>]

FencedWrappers == {"json_fence", "plain_fence", "json_open", "close_only"}

\* C9: a reply that is body B inside code fences (with or without the json
\* tag, or fenced on one side only) gives the result of the reply B alone.
C9_FenceIsStripped ==
    (pc = "returned" /\ response.kind = "text") =>
        \A i \in 1..Len(response.text) :
            (/\ response.text[i].ch = "doc"
             /\ \E w \in FencedWrappers :
                   response.text = Wrap(w, response.text[i].doc[1]))
            => result = _evaluate_with_llm(TextResponse(<<response.text[i]>>))

ScoresOf(b) == [c \in Categories |-> b[c]["score"].v]

\* C10: the total_score, grade and weights of an LLM result are those of any
\* other reply with the same four category scores.
C10_AggregateDependsOnScoresOnly ==
    (pc = "returned" /\ path = "llm") =>
        \A recs \in RecommendationChoices, extra \in BOOLEAN :
            LET other == _evaluate_with_llm(TextResponse(
                             <<Doc(WellFormed(ScoresOf(ParsedReply), recs, extra))>>))
            IN  /\ result.total_score = other.total_score
                /\ result.grade = other.grade
                /\ \A c \in Categories :
                      result.categories[c].weight = other.categories[c].weight

\* C10 witness: a reply that supplied its own total_score, grade and weights
\* was evaluated.
C10_Witness ==
    /\ pc = "returned"
    /\ path = "llm"
    /\ "total_score" \in DOMAIN ParsedReply
    /\ "weight" \in DOMAIN ParsedReply["typography"]
    /\ result.total_score # ParsedReply["total_score"].v
    /\ result.grade # ParsedReply["grade"]

\* the advisory of each category
Advisory ==
    [typography |-> REC_TYPOGRAPHY, color |-> REC_COLOR,
     layout |-> REC_LAYOUT, usability |-> REC_USABILITY]

\* the categories whose sub-score was below 70 in the last call
BelowSeventy == {c \in Categories : rec_in[c] < Whole(70)}

Elements(seq) == {seq[i] : i \in DOMAIN seq}

\* C11: the list _generate_recommendations returns is never empty; it is the
\* single congratulatory string exactly when all four sub-scores are >= 70;
\* otherwise it holds no congratulatory string and has as many entries as
\* there are sub-scores below 70.
C11_AdvisoriesExcludeCongratulation ==
    rec_out.called =>
        /\ rec_out.value # <<>>
        /\ (rec_out.value = <<REC_EXCELLENT>>) <=> (BelowSeventy = {})
        /\ BelowSeventy # {} =>
               /\ REC_EXCELLENT \notin Elements(rec_out.value)
               /\ Len(rec_out.value) = Cardinality(BelowSeventy)

\* exactly one sub-score at 40, the others at 70 or above: one advisory
C11_Witness ==
    /\ rec_out.called
    /\ rec_in["layout"] = Whole(40)
    /\ BelowSeventy = {"layout"}
    /\ rec_out.value = <<REC_LAYOUT>>

\* the position of a category in the order typography, color, layout, usability
CategoryOrder == [typography |-> 1, color |-> 2, layout |-> 3, usability |-> 4]

\* C12: the advisory of a category is in the returned list exactly when that
\* category's sub-score is strictly below 70, no advisory appears twice, and
\* the advisories appear in the order typography, color, layout, usability.
C12_AdvisoryIffBelowSeventyInOrder ==
    rec_out.called =>
        /\ \A c \in Categories :
               (Advisory[c] \in Elements(rec_out.value)) <=> (rec_in[c] < Whole(70))
        /\ \A i, j \in DOMAIN rec_out.value :
               i < j => rec_out.value[i] # rec_out.value[j]
        /\ \A i, j \in DOMAIN rec_out.value : \A c, d \in Categories :
               (i < j /\ rec_out.value[i] = Advisory[c] /\ rec_out.value[j] = Advisory[d])
                   => CategoryOrder[c] < CategoryOrder[d]

\* typography at exactly 70 (no advisory), usability lower than color: the
\* color advisory still precedes the usability one
C12_Witness ==
    /\ rec_out.called
    /\ rec_in["typography"] = Whole(70)
    /\ rec_in["color"] = Whole(70) - 1
    /\ rec_in["layout"] = Whole(90)
    /\ rec_in["usability"] = Whole(40)
    /\ rec_out.value = <<REC_COLOR, REC_USABILITY>>

\* the sum of the four weights of a table, in hundredths
WeightSum(w) == w["typography"] + w["color"] + w["layout"] + w["usability"]

\* the weights a returned result carries
ResultWeights(res) == [c \in Categories |-> res.categories[c].weight]

\* C13: the four category weights sum to 1.0: those of the evaluator's table,
\* which every returned result carries and total_score is computed with, and
\* those of the table in config/scoring_weights.py.
C13_WeightsSumToOne ==
    /\ WeightSum(CONFIG_SCORING_WEIGHTS) = 100
    /\ pc = "returned" =>
           /\ WeightSum(ResultWeights(result)) = 100
           /\ \A c \in Categories : result.categories[c].weight = SCORING_WEIGHTS[c]

\* a result computed from a model reply, with the four weights in it
C13_Witness ==
    /\ pc = "returned"
    /\ path = "llm"
    /\ result.total_score = Whole(85)
    /\ WeightSum(ResultWeights(result)) = 100

\* C14: the weights in every result evaluate_design returns are, category by
\* category, the weights of config/scoring_weights.py.
C14_ResultWeightsArePolicyWeights ==
    pc = "returned" =>
        \A c \in Categories :
            result.categories[c].weight = CONFIG_SCORING_WEIGHTS[c]

\* C14 (heuristic part): the same for every result _evaluate_basic returns.
C14_BasicWeightsArePolicyWeights ==
    basic_pc = "returned" =>
        \A c \in Categories :
            basic_out.categories[c].weight = CONFIG_SCORING_WEIGHTS[c]

\* C14 (thresholds part): _get_grade grades by the thresholds of the policy.
C14_GradeThresholdsArePolicy ==
    grade_out # "none" =>
        grade_out =
            IF grade_in >= Whole(SCORE_THRESHOLDS["excellent"]) THEN "Excelente"
            ELSE IF grade_in >= Whole(SCORE_THRESHOLDS["good"]) THEN "Bueno"
            ELSE IF grade_in >= Whole(SCORE_THRESHOLDS["fair"]) THEN "Regular"
            ELSE "Necesita mejoras"

\* str.startswith(('http://', 'https://'))
BeginsWithHttp(url) == StartsWith(url, HTTP_PREFIX) \/ StartsWith(url, HTTPS_PREFIX)

\* the names of the collaborator calls made so far for the current request
Called == {calls[i].call : i \in DOMAIN calls}

\* C15: a POST /evaluate whose URL does not begin with http:// or https:// is
\* answered with status 400 and the detail "URL debe comenzar con http:// o
\* https://", and no capture, upload, evaluation or logging is started.
C15_BadUrlAnswered400 ==
    (api_pc = "responded" /\ ~BeginsWithHttp(request.posted)) =>
        /\ http_response.status_code = 400
        /\ http_response.detail = <<DETAIL_BAD_URL>>
        /\ calls = <<>>

\* C15 (the part that holds): a request refused for its URL, by the body
\* validation or by the handler's own test, has made no collaborator call.
C15_RefusedBeforeAnyCall ==
    (api_pc = "responded"
        /\ \/ http_response.status_code = 422
           \/ http_response.detail = <<DETAIL_INTERNAL, BAD_URL_AS_TEXT>>) =>
        calls = <<>>

\* C16: when capture_screenshot raises during POST /evaluate, the request is
\* answered with status 500 and a detail that starts "Error interno del
\* servidor", and no upload, evaluation, task scheduling or logging is done
\* for that request.
C16_CaptureFailureIs500 ==
    RaisedIn("capture_screenshot") \in Elements(calls) =>
        /\ api_pc = "responded"
        /\ http_response.status_code = 500
        /\ Len(http_response.detail) = 2
        /\ http_response.detail[1] = DETAIL_INTERNAL
        /\ calls = <<RaisedIn("capture_screenshot")>>
        /\ background = NoBackground

\* the capture of an accepted request has raised and the request is answered
C16_Witness ==
    /\ api_pc = "responded"
    /\ calls = <<RaisedIn("capture_screenshot")>>
    /\ http_response.status_code = 500
    /\ BeginsWithHttp(request.url)

\* C17: within one request upload_screenshot is called only after
\* evaluate_design has returned.
C17_UploadAfterEvaluation ==
    \A i \in DOMAIN calls :
        calls[i].call = "upload_screenshot" =>
            \E j \in 1..(i - 1) : calls[j] = Returned("evaluate_design")

\* the response body built from the evaluation result at lines 178-185
BodyOf(data) ==
    [url |-> request.url,
     total_score |-> data.total_score,
     grade |-> data.grade,
     categories |-> data.categories,
     recommendations |-> data.recommendations,
     screenshot_url |-> screenshot_url,
     report_url |-> None]

\* C18: the logging task is added only after the call of evaluate_design is
\* over (or was skipped for want of an evaluator), it
\* holds the evaluation result the response is built from, and once it has
\* run, whether log_evaluation returned or raised (request error, or a
\* success=false reply), the response is still the 200 built from that result.
C18_LoggingIsFireAndForget ==
    /\ \A i \in DOMAIN calls :
           calls[i].call = "add_task" =>
               \/ \E j \in 1..(i - 1) : calls[j].call = "evaluate_design"
               \/ ~services.design_evaluator
    /\ background.state # "none" =>
           /\ background.evaluation_data = evaluation_data
           /\ background.url = request.url
           /\ http_response.status_code = 200
           /\ http_response.body = BodyOf(evaluation_data)
    /\ \A i \in DOMAIN calls :
           calls[i].call = "log_evaluation" =>
               \E j \in 1..(i - 1) : calls[j] = Returned("add_task")

\* the logging call has failed with a success=false reply after a 200 response
C18_Witness ==
    /\ background.state = "success_false"
    /\ RaisedIn("log_evaluation") \in Elements(calls)
    /\ http_response.status_code = 200
    /\ background.evaluation_data.total_score = Whole(85)

\* C19: GET /health answers 200 with, for each of the four services, whether
\* it is initialised; status is "healthy" exactly when all four are, and
\* "degraded" otherwise.
C19_HealthReportsServices ==
    api_pc = "health_responded" =>
        /\ health.status_code = 200
        /\ DOMAIN health.services =
               {"screenshot_capture", "cloud_storage", "design_evaluator", "sheets_logger"}
        /\ \A s \in DOMAIN health.services : health.services[s] = services[s]
        /\ health.status \in {"healthy", "degraded"}
        /\ (health.status = "healthy") <=>
               (services.screenshot_capture /\ services.cloud_storage
                /\ services.design_evaluator /\ services.sheets_logger)

\* three services initialised, the sheets logger not: degraded
C19_Witness ==
    /\ api_pc = "health_responded"
    /\ initialized
    /\ health.services.screenshot_capture
    /\ health.services.cloud_storage
    /\ health.services.design_evaluator
    /\ ~health.services.sheets_logger
    /\ health.status = "degraded"

\* C20: when the screenshot was captured and there is no model client, the
\* result evaluate_design returns comes from the heuristic strategy: it is
\* not the neutral result.
C20_HeuristicIsTheFallback ==
    (/\ api_pc \in {"respond", "responded"}
     /\ Returned("capture_screenshot") \in Elements(calls)
     /\ Returned("evaluate_design") \in Elements(calls)
     /\ ~openai_client) =>
        evaluation_data # _get_fallback_evaluation

\* C20 (why the above tells the strategies apart): no result of
\* _evaluate_basic is the neutral result.
C20_HeuristicResultIsNotNeutral ==
    basic_pc = "returned" => basic_out # _get_fallback_evaluation

\* the heights of the text regions the last direct call measured: all but the
\* first, which is the whole text
MeasuredHeights ==
    LET texts == sub_in.vision_results["texts"]
    IN  [i \in 1..(Len(texts) - 1) |-> Abs(texts[i + 1].y2 - texts[i + 1].y0)]

\* lo <= mean of the measured heights <= hi
MeanWithin(lo, hi) ==
    /\ lo * Len(MeasuredHeights) <= SumSeq(MeasuredHeights)
    /\ SumSeq(MeasuredHeights) <= hi * Len(MeasuredHeights)

\* the direct call of _evaluate_typography measured at least one height
TypographyMeasured ==
    /\ sub_call = "typography"
    /\ "texts" \in DOMAIN sub_in.vision_results
    /\ Len(sub_in.vision_results["texts"]) >= 2

\* the whole text and one region of height 25
TextsOfHeight25 ==
    [texts |-> <<[y0 |-> 0, y2 |-> 50, description |-> <<"B", "l", "o", "g">>],
                 [y0 |-> 100, y2 |-> 125, description |-> <<"B", "l", "o", "g">>]>>]

\* C21: _evaluate_typography applies the best matching band only: a mean
\* height in [14, 18] earns the larger bonus alone (85), a mean in [12, 20]
\* outside [14, 18] the smaller one (75), a mean outside [12, 20] none (65);
\* so a mean of 16 scores more than a mean of 25.
C21_TypographyBestBandOnly ==
    TypographyMeasured =>
        /\ sub_out.outcome = "returned"
        /\ MeanWithin(14, 18) => sub_out.score = Whole(50 + 20 + 15)
        /\ (MeanWithin(12, 20) /\ ~MeanWithin(14, 18)) =>
               sub_out.score = Whole(50 + 10 + 15)
        /\ ~MeanWithin(12, 20) => sub_out.score = Whole(50 + 15)
        /\ MeanWithin(16, 16) =>
               sub_out.score > _evaluate_typography(TextsOfHeight25, sub_in.pil_image)

\* heights 14 and 18, mean 16: the larger bonus alone
C21_Witness ==
    /\ TypographyMeasured
    /\ MeasuredHeights = <<14, 18>>
    /\ sub_out.score = Whole(85)

\* C22: every sub-score that _evaluate_typography, _evaluate_color,
\* _evaluate_layout or _evaluate_usability returns lies in [0, 100], also for
\* an empty text list, a dict without texts and an image with no colours.
C22_SubScoresInRange ==
    sub_out.outcome = "returned" =>
        /\ sub_call \in {"typography", "color", "layout", "usability"}
        /\ 0 <= sub_out.score
        /\ sub_out.score <= Whole(100)

\* three texts that all name navigation: the usability score is 100, not more
C22_Witness ==
    /\ sub_call = "usability"
    /\ Len(sub_in.vision_results["texts"]) = 3
    /\ \A i \in 1..3 : sub_in.vision_results["texts"][i].description \in NavDescriptions
    /\ sub_out.outcome = "returned"
    /\ sub_out.score = Whole(100)

\* the texts given to the last direct call (none when the dict has no 'texts')
SubTexts ==
    IF "texts" \in DOMAIN sub_in.vision_results
    THEN sub_in.vision_results["texts"] ELSE <<>>

\* C24: _evaluate_usability adds the navigation bonus exactly when some text
\* contains menu, nav, home, contact or about in any letter case, and adds it
\* once however many texts match: the score is 100 with a match and 80
\* without.
C24_NavigationBonusIffMatch ==
    sub_call = "usability" =>
        /\ sub_out.outcome = "returned"
        /\ (\E i \in DOMAIN SubTexts : SubTexts[i].description \in NavDescriptions)
               => sub_out.score = Whole(55 + 20 + 15 + 10)
        /\ (\A i \in DOMAIN SubTexts : SubTexts[i].description \in PlainDescriptions)
               => sub_out.score = Whole(55 + 15 + 10)

\* "MENU" and "home about" both match: one bonus
C24_Witness ==
    /\ sub_call = "usability"
    /\ Len(SubTexts) = 2
    /\ SubTexts[1].description = <<"M", "E", "N", "U">>
    /\ SubTexts[2].description = <<"h", "o", "m", "e", " ", "a", "b", "o", "u", "t">>
    /\ sub_out.score = Whole(100)

\* the hue of an RGB colour entry, in whole degrees
HueOf(entry) == HueDegrees(entry.color[1], entry.color[2], entry.color[3])

\* the distinct hues among the 10 most frequent colours of a colour list
DominantHues(colors) ==
    LET sorted == SortByCountDesc(colors)
        top == SubSeq(sorted, 1, Min(10, Len(sorted)))
    IN  {HueOf(top[i]) : i \in {j \in 1..Len(top) : Len(top[j].color) >= 3}}

\* colours that may be added to an image: hue 4 (as Ramp's first colour) with
\* many and with few pixels, and black
ExtraColors ==
    {[count |-> 200, color |-> <<15, 1, 0>>],
     [count |-> 1, color |-> <<15, 1, 0>>],
     [count |-> 200, color |-> <<0, 0, 0>>]}

\* the score of the image of the last direct call with one more colour
ScoreWith(entry) ==
    _evaluate_color([sub_in.pil_image EXCEPT !.colors = Append(@, entry)])

\* C23 as claimed: the color sub-score is 25 + 20 + 3 per distinct hue among
\* the 10 most frequent colours, capped at 30; it never exceeds 75; adding a
\* colour whose hue is already present does not change it.
C23_ColorScoreIsComponentsPlusDiversity ==
    sub_call = "color" =>
        /\ sub_out.score =
               Whole(25 + 20 + Min(30, 3 * Cardinality(DominantHues(sub_in.pil_image.colors))))
        /\ sub_out.score <= Whole(75)
        /\ \A entry \in ExtraColors :
               HueOf(entry) \in DominantHues(sub_in.pil_image.colors) =>
                   ScoreWith(entry) = sub_out.score

\* C23 as amended: for an image with at least one colour the color sub-score
\* is 25 + 20 + 3 per distinct hue among the 10 most frequent colours, capped
\* at 30, and for an image with no colours it is 50; it never exceeds 75;
\* adding a colour whose hue is already present never raises it and, when the
\* image has fewer than 10 colours, does not change it.
C23_ColorScoreAmended ==
    sub_call = "color" =>
        /\ sub_in.pil_image.colors = <<>> => sub_out.score = Whole(50)
        /\ sub_in.pil_image.colors # <<>> =>
               sub_out.score =
                   Whole(25 + 20 + Min(30, 3 * Cardinality(DominantHues(sub_in.pil_image.colors))))
        /\ sub_out.score <= Whole(75)
        /\ \A entry \in ExtraColors :
               HueOf(entry) \in DominantHues(sub_in.pil_image.colors) =>
                   /\ ScoreWith(entry) <= sub_out.score
                   /\ Len(sub_in.pil_image.colors) < 10 =>
                          ScoreWith(entry) = sub_out.score

\* three colours of one hue: one hue counted, and a fourth of that hue changes nothing
C23_Witness ==
    /\ sub_call = "color"
    /\ Len(sub_in.pil_image.colors) = 3
    /\ DominantHues(sub_in.pil_image.colors) = {4}
    /\ sub_out.score = Whole(25 + 20 + 3)
    /\ ScoreWith([count |-> 200, color |-> <<15, 1, 0>>]) = sub_out.score

\* C25: for an image of positive width and height _evaluate_layout returns
\* base 60 plus the fixed 15 and 10, plus the aspect bonus of 15 exactly when
\* 1.3 <= width / height <= 1.8, and never more than 100.
C25_LayoutBonusIffTypicalAspect ==
    (sub_call = "layout" /\ sub_in.pil_image.size[1] > 0 /\ sub_in.pil_image.size[2] > 0) =>
        LET width == sub_in.pil_image.size[1]
            height == sub_in.pil_image.size[2]
            in_band == 13 * height <= 10 * width /\ 10 * width <= 18 * height
        IN  /\ sub_out.outcome = "returned"
            /\ in_band => sub_out.score = Whole(60 + 15 + 15 + 10)
            /\ ~in_band => sub_out.score = Whole(60 + 15 + 10)
            /\ sub_out.score <= Whole(100)

\* 13 x 10: the ratio is exactly 1.3 and the bonus is earned
C25_Witness ==
    /\ sub_call = "layout"
    /\ sub_in.pil_image.size = <<13, 10>>
    /\ sub_out.outcome = "returned"
    /\ sub_out.score = Whole(100)

\* C26: every result _evaluate_basic returns has total_score in [65.0, 90.0],
\* a layout sub-score of at least 85 and a usability sub-score of at least 80,
\* neither the layout nor the usability advisory, and a grade other than
\* "Necesita mejoras".
C26_BasicTotalBetween65And90 ==
    basic_pc = "returned" =>
        /\ Whole(65) <= basic_out.total_score
        /\ basic_out.total_score <= Whole(90)
        /\ basic_out.categories["layout"].score >= Whole(85)
        /\ basic_out.categories["usability"].score >= Whole(80)
        /\ REC_LAYOUT \notin Elements(basic_out.recommendations)
        /\ REC_USABILITY \notin Elements(basic_out.recommendations)
        /\ basic_out.grade # "Necesita mejoras"

\* no texts, colours without hue, a square image: the lowest total, 65.0
C26_Witness ==
    /\ basic_pc = "returned"
    /\ basic_out.total_score = Whole(65)
    /\ basic_out.grade = "Regular"
    /\ basic_out.recommendations = <<REC_TYPOGRAPHY, REC_COLOR>>

EvaluatorFailed ==
    \/ ~services.design_evaluator
    \/ RaisedIn("evaluate_design") \in Elements(calls)

\* C27: once the screenshot is captured, a request whose design evaluator is
\* None or whose evaluate_design call raises is answered 200 with the handler's
\* default: total_score 50.0, grade "Regular", one recommendation and an empty
\* categories mapping
C27_EvaluatorFailureAnsweredWithDefault ==
    (/\ api_pc = "responded"
     /\ Returned("capture_screenshot") \in Elements(calls)
     /\ EvaluatorFailed) =>
        /\ http_response.status_code = 200
        /\ http_response.body.total_score = Whole(50)
        /\ http_response.body.grade = "Regular"
        /\ Len(http_response.body.recommendations) = 1
        /\ DOMAIN http_response.body.categories = {}
        /\ evaluation_data = DefaultEvaluationData

C27_Witness ==
    /\ api_pc = "responded"
    /\ RaisedIn("evaluate_design") \in Elements(calls)
    /\ services.design_evaluator
    /\ http_response.status_code = 200
    /\ DOMAIN http_response.body.categories # Categories

UploadFailed ==
    \/ ~services.cloud_storage
    \/ RaisedIn("upload_screenshot") \in Elements(calls)

ProvidedScreenshotUrl == request.screenshot_url \notin {None, ""}

\* C28: once the screenshot is captured, a request whose upload raises or whose
\* cloud storage is None still runs the evaluation and adds the logging task and
\* is answered 200 with screenshot_url null; the screenshot_url of every 200
\* response is the backend upload's URL (null without an upload), and the URL
\* handed to the logger is the request's screenshot_url when one was provided
\* and the backend's otherwise
C28_UploadFailureDoesNotFailRequest ==
    /\ (/\ api_pc = "responded"
        /\ Returned("capture_screenshot") \in Elements(calls)
        /\ UploadFailed) =>
           /\ services.design_evaluator => "evaluate_design" \in Called
           /\ "add_task" \in Called
           /\ background.state # "none"
           /\ http_response.status_code = 200
           /\ http_response.body.screenshot_url = None
    /\ http_response.status_code = 200 =>
           http_response.body.screenshot_url =
               IF Returned("upload_screenshot") \in Elements(calls)
               THEN BACKEND_SCREENSHOT_URL ELSE None
    /\ background.state # "none" =>
           background.screenshot_url =
               IF ProvidedScreenshotUrl THEN request.screenshot_url
               ELSE http_response.body.screenshot_url

\* the upload raised, the request carried its own screenshot URL: the response
\* has none, the logger gets the request's
C28_Witness ==
    /\ api_pc = "responded"
    /\ RaisedIn("upload_screenshot") \in Elements(calls)
    /\ ProvidedScreenshotUrl
    /\ http_response.status_code = 200
    /\ http_response.body.screenshot_url = None
    /\ background.state = "logged"
    /\ background.screenshot_url = request.screenshot_url

ERROR_AL_CAPTURAR ==
    <<"E", "r", "r", "o", "r", " ", "a", "l", " ", "c", "a", "p", "t", "u",
      "r", "a", "r">>

\* C29: when a call of capture_screenshot or capture_full_page has ended,
\* returning or raising, every driver created so far has had quit() called,
\* ScreenshotCapture.driver is None, and the exception of a failed call has a
\* message that starts with "Error al capturar"
C29_DriversCreatedUsedReleased ==
    shot_pc \in {"ended", "idle"} =>
        /\ \A d \in DOMAIN drivers : drivers[d].quit_calls >= 1
        /\ self_driver = NoDriver
        /\ shot_out.outcome = "raised" =>
               StartsWith(shot_out.message, ERROR_AL_CAPTURAR)

\* three calls have ended: one returned although quit() raised, one failed
\* with its driver released, one failed without a driver
C29_Witness ==
    /\ shot_pc = "ended"
    /\ Len(drivers) = 2
    /\ drivers[1].binary = "webdriver_manager"
    /\ drivers[1].quit_raised
    /\ ~drivers[2].quit_raised
    /\ local_driver = NoDriver
    /\ shot_out.outcome = "raised"
    /\ shot_call.method = "capture_full_page"

Attempted(step) == step \in Elements(cloud_trace)

RequestItselfFailed ==
    Attempted("post_raised") \/ Attempted("status_error") \/ Attempted("json_error")

\* the decoded reply says success=false (or nothing), or success=true with no URL
RefusedReply ==
    /\ Attempted("decoded")
    /\ cloud_reply.body = "object"
    /\ \/ cloud_reply.success # Json("bool", "true")
       \/ cloud_reply.url.type # "string"
       \/ cloud_reply.url.text = ""

\* C30: an upload_image call that has ended returned a URL that is neither
\* None nor empty, or raised; Google Drive is attempted only after the request
\* to the script endpoint itself failed and with a Drive service configured; a
\* reply with success=false, or success=true without a URL, raises and Google
\* Drive is not attempted
C30_UploadReturnsUrlOrRaises ==
    /\ cloud_pc = "ended" =>
           \/ cloud_out.outcome = "raised"
           \/ cloud_out.outcome = "returned" /\ cloud_out.value \notin {None, ""}
    /\ Attempted("drive_upload") => RequestItselfFailed /\ has_service
    /\ (cloud_pc = "ended" /\ RefusedReply) =>
           cloud_out.outcome = "raised" /\ ~Attempted("drive_upload")

\* success=true came without a URL while Drive was configured: the call raised
\* and Drive was not tried
C30_Witness ==
    /\ cloud_pc = "ended"
    /\ has_service
    /\ cloud_reply.body = "object"
    /\ cloud_reply.success = Json("bool", "true")
    /\ cloud_reply.url = JsonNull
    /\ cloud_out.outcome = "raised"
    /\ cloud_out.message = <<ERROR_NO_URL>>
    /\ ~Attempted("drive_upload")

====
